---- MODULE Spec2Model ----
(***************************************************************************)
(* Tournament lifecycle engine of aoe4-tournament-manager:                 *)
(*   core/services.py  TournamentHelper, LeagueFormatService,              *)
(*                     SingleElimFormatService, TournamentService,         *)
(*                     MatchSchedulingService                              *)
(*   core/tasks.py     build_tournament_structure_task                     *)
(*   core/views.py     TournamentViewSet.start, MatchViewSet               *)
(*                                                                         *)
(* Time is counted in seconds of local time since the Monday 00:00 of the  *)
(* week that holds the tournament's starts_at (week_start_dt of            *)
(* _expand_weekly_availability).  A null foreign key is 0, a null          *)
(* scheduled_at is NullTime.  Python lists are sequences; a Python index i *)
(* is position i + 1 of the sequence.                                      *)
(***************************************************************************)
EXTENDS Integers, Sequences, FiniteSets, TLC

VARIABLES
    tour,       \* Tournament row: status, team_size, starts_at, ends_at, game_gaps
    entrants,   \* TournamentEntrant rows: id -> [status, member_count, captain]
    stages,     \* TournamentStage rows of the tournament, by id
    matches,    \* Match rows of the tournament, by id
    avail,      \* UserAvailability rows: user id -> sequence of [start_offset, end_offset]
    task,       \* the build_tournament_structure_task job: pc, format, retries, result
    last        \* what the last call of a service did (call, outcome, state before it)

vars == <<tour, entrants, stages, matches, avail, task, last>>

-----------------------------------------------------------------------------
(* Program constants *)

slot_minutes == 15
base_match_duration_minutes == 60
max_retries == 5
SECONDS_PER_MINUTE == 60
SECONDS_PER_HOUR == 3600
SECONDS_PER_DAY == 86400
DAYS_PER_WEEK == 7
PM_HOUR == 12

(* Bounds of the model *)

MaxEntrants == 5        \* entrants of a tournament handed to the builder
MaxMixed == 2           \* of these, entrants whose status and member count vary
MaxSchedEntrants == 3   \* entrants of a tournament handed to the scheduler
MaxPatches == 1         \* matches given a scheduled_at through the matches endpoint
MaxTaskEntrants == 3    \* entrants of a tournament started through the task
MaxJobs == 2            \* concurrent build jobs of one tournament
MaxConcEntrants == 2    \* entrants of a tournament built by concurrent jobs
MaxConcRetries == 1     \* retries of a concurrent build job that are followed
MaxAdminEdits == 1      \* status changes made in the admin site
MaxSeries == 3          \* matches of a series between two captains
MaxRounds == 7          \* rounds of the largest bracket that is seeded
MaxWindows == 2         \* availability windows created for the user
MaxUsers == 3           \* users who join the tournament
MaxTeamSize == 3        \* largest team_size of the tournament
MaxEntrantRows == 2     \* entrant rows ever inserted
MaxMemberRows == 3      \* membership rows ever inserted
MaxCalls == 9           \* membership calls that return
MaxJoiners == 3         \* concurrent join_by_invite calls
MaxUses == 2            \* largest max_uses of the invite
MaxSeeds == 2           \* matches that already have a scheduled_at
MaxPicks == 2           \* matches the main loop of the scheduler visits
MaxRuns == 2            \* scheduler runs of one tournament at the same time

NoEntrant == 0
NoUser == 0
NullTime == -1
NullSlot == -1

Max(a, b) == IF a >= b THEN a ELSE b
Min(a, b) == IF a <= b THEN a ELSE b
CeilDiv(a, b) == -((-a) \div b)
FloorDiv(a, b) == a \div b
Range(s) == {s[i] : i \in DOMAIN s}
Last(s) == s[Len(s)]
Front(s) == SubSeq(s, 1, Len(s) - 1)
Perms(S) == {f \in [1..Cardinality(S) -> S] : \A i, j \in DOMAIN f : f[i] = f[j] => i = j}

RECURSIVE SumSeq(_)
SumSeq(s) == IF s = <<>> THEN 0 ELSE Head(s) + SumSeq(Tail(s))

-----------------------------------------------------------------------------
(* TournamentHelper *)

\* random.Random(seed), the seed being the first 8 bytes of
\* sha256("{tournament_id}:{format}"): a value fixed by the two arguments (the
\* digest is not computed; distinct arguments get distinct seeds)
format_code(format) == IF format = "LEAGUE" THEN 0 ELSE IF format = "SINGLE_ELIM" THEN 1 ELSE 2
deterministic_rng(tournament_id, format) == [seed |-> 3 * tournament_id + format_code(format)]

RECURSIVE bit_length(_)
bit_length(x) == IF x <= 0 THEN 0 ELSE 1 + bit_length(x \div 2)

RECURSIVE Pow2(_)
Pow2(k) == IF k <= 0 THEN 1 ELSE 2 * Pow2(k - 1)

next_power_of_two(n) == IF n <= 1 THEN 1 ELSE Pow2(bit_length(n - 1))

\* int(math.log2(bracket_size)) of a power of two
RECURSIVE log2(_)
log2(n) == IF n <= 1 THEN 0 ELSE 1 + log2(n \div 2)

wins_needed_fails(best_of) == best_of <= 0 \/ best_of % 2 = 0

wins_needed(best_of) == (best_of \div 2) + 1

\* the pairings of one round: positions i and -(i + 1) of current, byes dropped,
\* the pair swapped on odd r
rr_pairings(current, r) ==
    LET n == Len(current)
        raw == [i \in 1..(n \div 2) |->
                  LET a == current[i]
                      b == current[n - i + 1]
                  IN  IF r % 2 = 0 THEN <<a, b>> ELSE <<b, a>>]
    IN  SelectSeq(raw, LAMBDA p : p[1] # NoEntrant /\ p[2] # NoEntrant)

\* the loop with the rotation of rest left out
RECURSIVE rr_loop_without_rotation(_, _, _, _, _)
rr_loop_without_rotation(fixed, rest, r, n, rounds) ==
    IF r >= n - 1 THEN rounds
    ELSE rr_loop_without_rotation(fixed, rest, r + 1, n,
                                  Append(rounds, rr_pairings(<<fixed>> \o rest, r)))

RECURSIVE rr_loop(_, _, _, _, _)
rr_loop(fixed, rest, r, n, rounds) ==
    IF r >= n - 1 THEN rounds
    ELSE rr_loop(fixed, <<Last(rest)>> \o Front(rest), r + 1, n,
                 Append(rounds, rr_pairings(<<fixed>> \o rest, r)))

round_robin_rounds(es) ==
    LET items == IF Len(es) % 2 = 1 THEN Append(es, NoEntrant) ELSE es
    IN  rr_loop(Head(items), Tail(items), 0, Len(items), <<>>)

\* out.append(s) without the seed that meets s
interleave_without_mirror(prev, n) ==
    [k \in 1..(2 * Len(prev)) |-> IF k % 2 = 1 THEN prev[(k + 1) \div 2]
                                  ELSE Len(prev) + k \div 2]

\* for s in prev: out.append(s); out.append(n + 1 - s)
interleave(prev, n) ==
    [k \in 1..(2 * Len(prev)) |-> IF k % 2 = 1 THEN prev[(k + 1) \div 2]
                                  ELSE n + 1 - prev[k \div 2]]

RECURSIVE bracket_seed_positions(_)
bracket_seed_positions(size) ==
    IF size = 1 THEN <<1>>
    ELSE interleave(bracket_seed_positions(size \div 2), size)

-----------------------------------------------------------------------------
(* Rows *)

REGISTRATION == "REGISTRATION"
RUNNING == "RUNNING"
FINISHED == "FINISHED"
ACTIVE == "ACTIVE"
DROPPED == "DROPPED"
DISQUALIFIED == "DISQUALIFIED"
LEAGUE == "LEAGUE"
SINGLE_ELIM == "SINGLE_ELIM"
SCHEDULED == "SCHEDULED"

\* Match(stage=..., round_number=..., order=..., best_of=..., status=SCHEDULED,
\* entrant1=..., entrant2=...): the other fields take the model's defaults
NewMatch(stage_id, round_number, order, best_of, entrant1, entrant2) ==
    [stage |-> stage_id, round_number |-> round_number, order |-> order,
     best_of |-> best_of, status |-> SCHEDULED,
     entrant1 |-> entrant1, entrant2 |-> entrant2,
     score1 |-> 0, score2 |-> 0, winner_slot |-> 0, scheduled_at |-> NullTime]

NewStage(type) == [type |-> type, order |-> 0, best_of_default |-> 1]

\* the persisted rows as one value
Db(t, es, ss, ms) == [tour |-> t, entrants |-> es, stages |-> ss, matches |-> ms]

\* the outcome of a service call: ok or the ValidationError's detail, with the
\* rows as the call left them inside its transaction
Raised(db, detail) == [ok |-> FALSE, detail |-> detail, db |-> db, stage_id |-> 0, match_count |-> 0]
Returned(db, stage_id, match_count) ==
    [ok |-> TRUE, detail |-> "", db |-> db, stage_id |-> stage_id, match_count |-> match_count]

-----------------------------------------------------------------------------
(* LeagueFormatService *)

RECURSIVE league_matches(_, _, _, _)
league_matches(rounds, r, stage_id, best_of) ==
    IF r > Len(rounds) THEN <<>>
    ELSE [o \in 1..Len(rounds[r]) |->
            NewMatch(stage_id, r, o - 1, best_of, rounds[r][o][1], rounds[r][o][2])]
         \o league_matches(rounds, r + 1, stage_id, best_of)

LeagueFormatService_build(db, es) ==
    IF Len(es) < 2 THEN Raised(db, "LEAGUE requires at least 2 entrants.")
    ELSE LET stage == NewStage(LEAGUE)
             ss == Append(db.stages, stage)
             stage_id == Len(ss)
             created == league_matches(round_robin_rounds(es), 1, stage_id, stage.best_of_default)
         IN  Returned([db EXCEPT !.stages = ss, !.matches = db.matches \o created],
                      stage_id, Len(created))

-----------------------------------------------------------------------------
(* SingleElimFormatService *)

\* rng.shuffle(entrants).  The generator is a function of its seed alone and the
\* list is permuted by position; the Mersenne Twister stream is not computed
\* here: under seed s a list of length n is rotated by s mod n and reversed
shuffle(es, rng) ==
    LET n == Len(es)
        k == rng.seed % n
        rotated == [i \in 1..n |-> es[((i - 1 + k) % n) + 1]]
    IN  [i \in 1..n |-> rotated[n + 1 - i]]

\* the same list with the two entrants of every pair swapped
seed_order_swapped(es, positions) ==
    [k \in 1..Len(positions) |->
        LET seed == positions[IF k % 2 = 1 THEN k + 1 ELSE k - 1]
        IN  IF seed <= Len(es) THEN es[seed] ELSE NoEntrant]

\* ordered = [seed_to_entrant.get(seed) for seed in positions]
seed_order(es, positions) ==
    [k \in 1..Len(positions) |->
        IF positions[k] <= Len(es) THEN es[positions[k]] ELSE NoEntrant]

RECURSIVE bracket_shells(_, _, _, _, _)
bracket_shells(round_number, rounds, bracket_size, ordered, stage_id) ==
    IF round_number > rounds THEN <<>>
    ELSE [o \in 1..(bracket_size \div Pow2(round_number)) |->
            NewMatch(stage_id, round_number, o - 1, 1,
                     IF round_number = 1 THEN ordered[2 * (o - 1) + 1] ELSE NoEntrant,
                     IF round_number = 1 THEN ordered[2 * (o - 1) + 2] ELSE NoEntrant)]
         \o bracket_shells(round_number + 1, rounds, bracket_size, ordered, stage_id)

\* one pass of the loop over round1: ms holds the created rows, round 1 first
\* (row o + 1 is the round-1 match of order o) and round 2 right after it
\* the pass that always fills entrant1 of the round-2 match
advance_bye_into_entrant1(ms, k, n1, has_round2) ==
    LET m == ms[k]
        r2 == n1 + (m.order \div 2) + 1
        first == m.entrant1 # NoEntrant /\ m.entrant2 = NoEntrant
        second == m.entrant2 # NoEntrant /\ m.entrant1 = NoEntrant
        win == IF first THEN m.entrant1 ELSE m.entrant2
        done == IF first
                THEN [m EXCEPT !.status = FINISHED, !.winner_slot = 1,
                               !.score1 = wins_needed(m.best_of), !.score2 = 0]
                ELSE [m EXCEPT !.status = FINISHED, !.winner_slot = 2,
                               !.score1 = 0, !.score2 = wins_needed(m.best_of)]
        ms1 == [ms EXCEPT ![k] = done]
    IN  IF ~(first \/ second) THEN ms
        ELSE IF ~has_round2 THEN ms1
        ELSE [ms1 EXCEPT ![r2].entrant1 = win]

advance_bye(ms, k, n1, has_round2) ==
    LET m == ms[k]
        idx == m.order \div 2
        r2 == n1 + idx + 1
        first == m.entrant1 # NoEntrant /\ m.entrant2 = NoEntrant
        second == m.entrant2 # NoEntrant /\ m.entrant1 = NoEntrant
        win == IF first THEN m.entrant1 ELSE m.entrant2
        done == IF first
                THEN [m EXCEPT !.status = FINISHED, !.winner_slot = 1,
                               !.score1 = wins_needed(m.best_of), !.score2 = 0]
                ELSE [m EXCEPT !.status = FINISHED, !.winner_slot = 2,
                               !.score1 = 0, !.score2 = wins_needed(m.best_of)]
        ms1 == [ms EXCEPT ![k] = done]
    IN  IF ~(first \/ second) THEN ms
        ELSE IF ~has_round2 THEN ms1
        ELSE IF m.order % 2 = 0 THEN [ms1 EXCEPT ![r2].entrant1 = win]
        ELSE [ms1 EXCEPT ![r2].entrant2 = win]

RECURSIVE advance_byes(_, _, _, _)
advance_byes(ms, k, n1, has_round2) ==
    IF k > n1 THEN ms
    ELSE advance_byes(advance_bye(ms, k, n1, has_round2), k + 1, n1, has_round2)

SingleElimFormatService_build(db, entrant_list, rng) ==
    IF Len(entrant_list) < 2 THEN Raised(db, "SINGLE_ELIM requires at least 2 entrants.")
    ELSE LET es == shuffle(entrant_list, rng)
             bracket_size == next_power_of_two(Len(es))
             positions == bracket_seed_positions(bracket_size)
             ordered == seed_order(es, positions)
             ss == Append(db.stages, NewStage(SINGLE_ELIM))
             stage_id == Len(ss)
             rounds == log2(bracket_size)
             created == bracket_shells(1, rounds, bracket_size, ordered, stage_id)
             updated == advance_byes(created, 1, bracket_size \div 2, rounds >= 2)
         IN  Returned([db EXCEPT !.stages = ss, !.matches = db.matches \o updated],
                      stage_id, bracket_size - 1)

-----------------------------------------------------------------------------
(* TournamentService.build_structure *)

\* leaving "with transaction.atomic()": commit on return, roll back on an exception
atomic_exit_keeps_writes(before, out) == out

atomic_exit(before, out) == IF out.ok THEN out ELSE [out EXCEPT !.db = before]

\* tournament.status = RUNNING; tournament.save(...)
set_running_skipped(db) == db

set_running(db) == [db EXCEPT !.tour.status = RUNNING]

\* tournament.status in {RUNNING, FINISHED}
status_not_looked_at(tournament) == FALSE

started_or_finished(tournament) == tournament.status \in {RUNNING, FINISHED}

\* a cleanup that finds no team to delete
incomplete_ids_none(entrant_rows, loaded, required) == {}

\* invalid_ids: the loaded entrants of a team tournament whose member_count is
\* not team_size
incomplete_ids(entrant_rows, loaded, required) ==
    IF required > 1
    THEN {e \in Range(loaded) : entrant_rows[e].member_count # required}
    ELSE {}

\* the body of the transaction; loaded is the list the entrants query returned
build_structure_body(db, format, loaded) ==
    IF started_or_finished(db.tour)
    THEN Raised(db, "Tournament already started or finished.")
    ELSE IF Len(db.stages) > 0
    THEN Raised(db, "Tournament structure already exists.")
    ELSE LET required == db.tour.team_size
             invalid_ids == incomplete_ids(db.entrants, loaded, required)
             db1 == [db EXCEPT !.entrants =
                        [e \in (DOMAIN db.entrants) \ invalid_ids |-> db.entrants[e]]]
             es == SelectSeq(loaded, LAMBDA e : e \notin invalid_ids)
             rng == deterministic_rng(db.tour.id, format)
             built == IF format = LEAGUE THEN LeagueFormatService_build(db1, es)
                      ELSE IF format = SINGLE_ELIM
                      THEN SingleElimFormatService_build(db1, es, rng)
                      ELSE Raised(db1, "Unsupported format.")
         IN  IF Len(es) < 2
             THEN Raised(db1, "At least 2 entrants are required to start a tournament.")
             ELSE IF ~built.ok THEN built
             ELSE [built EXCEPT !.db = set_running(built.db)]

build_structure(db, format, loaded) ==
    atomic_exit(db, build_structure_body(db, format, loaded))

\* the lists the entrants query can return when the call reaches it: the ACTIVE
\* rows, in an order the query does not fix (an aggregate query takes no default
\* ordering)
ActiveIds(es) == {e \in DOMAIN es : es[e].status = ACTIVE}
build_guards_pass(db) == ~started_or_finished(db.tour) /\ Len(db.stages) = 0
LoadOrders(db) == IF build_guards_pass(db) THEN Perms(ActiveIds(db.entrants)) ELSE {<<>>}

-----------------------------------------------------------------------------
(* MatchSchedulingService: the pure helpers *)

step_seconds == slot_minutes * SECONDS_PER_MINUTE
WEEK_SECONDS == DAYS_PER_WEEK * SECONDS_PER_DAY

\* cur, cur + step, cur + 2 * step, ... as long as the value is below end_at
slots_from(cur, end_at) ==
    [i \in 1..(IF cur < end_at THEN CeilDiv(end_at - cur, step_seconds) ELSE 0) |->
        cur + (i - 1) * step_seconds]

\* start_at.replace(second=0, microsecond=0), moved up to the next minute that is
\* a multiple of slot_minutes
grid_start(start_at) ==
    LET start == start_at - (start_at % SECONDS_PER_MINUTE)
        minute == (start \div SECONDS_PER_MINUTE) % 60
        delta_min == (slot_minutes - (minute % slot_minutes)) % slot_minutes
    IN  start + delta_min * SECONDS_PER_MINUTE

_build_slots(start_at, end_at) == slots_from(grid_start(start_at), end_at)

\* slots[i] for a Python index i
SlotAt(slots, i) == slots[i + 1]

\* a stable sort of a sequence of <<key, value>> pairs by key, a key being a
\* pair of numbers compared as Python compares tuples
key_leq(k, l) == k[1] < l[1] \/ (k[1] = l[1] /\ k[2] <= l[2])

RECURSIVE insert_by_key(_, _)
insert_by_key(sorted, x) ==
    IF sorted = <<>> THEN <<x>>
    ELSE IF key_leq(Head(sorted)[1], x[1]) THEN <<Head(sorted)>> \o insert_by_key(Tail(sorted), x)
    ELSE <<x>> \o sorted

RECURSIVE sort_by_key(_)
sort_by_key(s) == IF s = <<>> THEN <<>> ELSE insert_by_key(sort_by_key(Front(s)), Last(s))

\* one week's intervals of one user's rows, clipped to [start_local, end_local)
clip_rows(rows, ws, start_local, end_local) ==
    LET clipped == [k \in 1..Len(rows) |->
                      <<Max(ws + rows[k].start_offset, start_local),
                        Min(ws + rows[k].end_offset, end_local)>>]
    IN  SelectSeq(clipped, LAMBDA iv : iv[2] > iv[1])

RECURSIVE expand_weeks(_, _, _, _)
expand_weeks(rows, ws, start_local, end_local) ==
    IF ws < end_local
    THEN clip_rows(rows, ws, start_local, end_local)
         \o expand_weeks(rows, ws + WEEK_SECONDS, start_local, end_local)
    ELSE <<>>

week_start(start_local) == start_local - (start_local % WEEK_SECONDS)

\* the intervals of one user, sorted by start
user_intervals(rows, start_at, end_at) ==
    LET found == expand_weeks(rows, week_start(start_at), start_at, end_at)
        keyed == sort_by_key([k \in 1..Len(found) |-> <<(<<found[k][1], 0>>), found[k]>>])
    IN  [k \in 1..Len(keyed) |-> keyed[k][2]]

\* [ok, detail, intervals]: user -> intervals, or the ValidationError
_expand_weekly_availability(availabilities, user_ids, start_at, end_at) ==
    LET missing_user_ids == {u \in user_ids : Len(availabilities[u]) = 0}
        user_to_intervals == [u \in user_ids |-> user_intervals(availabilities[u], start_at, end_at)]
        empty_after_clip == {u \in user_ids : Len(user_to_intervals[u]) = 0}
    IN  IF user_ids = {}
        THEN [ok |-> FALSE, detail |-> "No users resolved for scheduling (missing captains?).",
              intervals |-> <<>>]
        ELSE IF missing_user_ids # {}
        THEN [ok |-> FALSE, detail |-> "Users missing availability", intervals |-> <<>>]
        ELSE IF empty_after_clip # {}
        THEN [ok |-> FALSE, detail |-> "Users have no availability within tournament window",
              intervals |-> <<>>]
        ELSE [ok |-> TRUE, detail |-> "", intervals |-> user_to_intervals]

\* the difference array of one user's intervals, over 0..len(slots)
RECURSIVE avail_diff(_, _, _, _, _)
avail_diff(slots, duration_slots, intervals, k, diff) ==
    IF k > Len(intervals) THEN diff
    ELSE LET slot0 == slots[1]
             s == intervals[k][1]
             e == intervals[k][2]
             start_i == Max(CeilDiv(s - slot0, step_seconds), 0)
             raw_end == FloorDiv((e - duration_slots * step_seconds) - slot0, step_seconds)
             end_i == IF raw_end >= Len(slots) THEN Len(slots) - 1 ELSE raw_end
         IN  avail_diff(slots, duration_slots, intervals, k + 1,
                        IF end_i < start_i THEN diff
                        ELSE [diff EXCEPT ![start_i] = @ + 1, ![end_i + 1] = @ - 1])

\* diff[lo] + ... + diff[hi - 1]
RECURSIVE diff_sum(_, _, _)
diff_sum(diff, lo, hi) ==
    IF lo >= hi THEN 0
    ELSE IF hi = lo + 1 THEN diff[lo]
    ELSE diff_sum(diff, lo, (lo + hi) \div 2) + diff_sum(diff, (lo + hi) \div 2, hi)

\* the indices i of range(i, n) at which the running sum cur, after diff[i] has
\* been added to it, is positive
avail_sweep(diff, i, n, cur) ==
    SelectSeq([k \in 1..(n - i) |-> i + k - 1],
              LAMBDA x : cur + diff_sum(diff, i, x + 1) > 0)

every_slot_index(slots, duration_slots, intervals) == [k \in 1..Len(slots) |-> k - 1]

\* the start indices of one user for one duration
user_available_starts(slots, duration_slots, intervals) ==
    avail_sweep(avail_diff(slots, duration_slots, intervals, 1, [i \in 0..Len(slots) |-> 0]),
                0, Len(slots), 0)

_compute_user_available_start_indices(slots, duration_slots, user_to_intervals) ==
    [u \in DOMAIN user_to_intervals |->
        user_available_starts(slots, duration_slots, user_to_intervals[u])]

RECURSIVE count_from(_, _, _, _)
count_from(a, b, i, j) ==
    IF i > Len(a) \/ j > Len(b) THEN 0
    ELSE IF a[i] = b[j] THEN 1 + count_from(a, b, i + 1, j + 1)
    ELSE IF a[i] < b[j] THEN count_from(a, b, i + 1, j)
    ELSE count_from(a, b, i, j + 1)

_count_intersection(a, b) == count_from(a, b, 1, 1)

\* bisect_left of a sorted list
bisect_left(items, x) == Cardinality({k \in DOMAIN items : items[k] < x})

Abs(x) == IF x < 0 THEN -x ELSE x

_distance_to_list(x, items) ==
    IF items = <<>> THEN 0
    ELSE LET pos == bisect_left(items, x)
             right == IF pos < Len(items) THEN {Abs(items[pos + 1] - x)} ELSE {}
             left == IF pos > 0 THEN {Abs(items[pos] - x)} ELSE {}
         IN  CHOOSE c \in right \cup left : \A o \in right \cup left : c <= o

_dt_to_slot_index(dt, slot0) ==
    IF dt <= slot0 THEN 0 ELSE FloorDiv(dt - slot0, step_seconds)

RECURSIVE insert_pos_from(_, _, _, _)
insert_pos_from(intervals, start_i, lo, hi) ==
    IF lo < hi
    THEN LET mid == (lo + hi) \div 2
         IN  IF intervals[mid + 1][1] < start_i
             THEN insert_pos_from(intervals, start_i, mid + 1, hi)
             ELSE insert_pos_from(intervals, start_i, lo, mid)
    ELSE lo

_interval_insert_pos(intervals, start_i) == insert_pos_from(intervals, start_i, 0, Len(intervals))

\* user_to_reserved with [start_i, start_i + reserve_slots) inserted for one user
_reserve_interval(user_to_reserved, user_id, start_i, reserve_slots) ==
    LET intervals == user_to_reserved[user_id]
        pos == _interval_insert_pos(intervals, start_i)
    IN  [user_to_reserved EXCEPT ![user_id] =
            SubSeq(intervals, 1, pos) \o <<(<<start_i, start_i + reserve_slots>>)>>
            \o SubSeq(intervals, pos + 1, Len(intervals))]

_fits_reserved_constraints(user_id, start_i, reserve_slots, user_to_reserved) ==
    LET intervals == user_to_reserved[user_id]
        end_i == start_i + reserve_slots
        pos == _interval_insert_pos(intervals, start_i)
    IN  IF intervals = <<>> THEN TRUE
        ELSE IF pos > 0 /\ intervals[pos][2] > start_i THEN FALSE
        ELSE IF pos < Len(intervals) /\ end_i > intervals[pos + 1][1] THEN FALSE
        ELSE TRUE

hour_not_looked_at(dt) == FALSE

_is_pm(dt) == (dt % SECONDS_PER_DAY) \div SECONDS_PER_HOUR >= PM_HOUR

-----------------------------------------------------------------------------
(* MatchSchedulingService._pick_best_slot_index *)

\* q: slots, duration_minutes, duration_slots, gap_slots, end_at, user1_id,
\* user2_id, user_to_reserved.  The end bound and the two reservation checks:
slot_is_free(q, idx) ==
    /\ SlotAt(q.slots, idx) + q.duration_minutes * SECONDS_PER_MINUTE <= q.end_at
    /\ _fits_reserved_constraints(q.user1_id, idx, q.duration_slots + q.gap_slots,
                                  q.user_to_reserved)
    /\ _fits_reserved_constraints(q.user2_id, idx, q.duration_slots + q.gap_slots,
                                  q.user_to_reserved)

\* the two-pointer walk over both start lists
RECURSIVE common_slot(_, _, _, _, _)
common_slot(q, a, b, i, j) ==
    IF i > Len(a) \/ j > Len(b) THEN NullSlot
    ELSE IF a[i] = b[j]
         THEN IF slot_is_free(q, a[i]) THEN a[i] ELSE common_slot(q, a, b, i + 1, j + 1)
    ELSE IF a[i] < b[j] THEN common_slot(q, a, b, i + 1, j)
    ELSE common_slot(q, a, b, i, j + 1)

\* one pass of the body of the scan; best holds best_any, best_any_cost,
\* best_pm, best_pm_cost, None being NullSlot
fallback_step(q, a, b, idx, best) ==
    IF ~slot_is_free(q, idx) THEN best
    ELSE LET cost == (_distance_to_list(idx, a) + _distance_to_list(idx, b)) * slot_minutes
             prefer_pm == a # <<>> /\ b # <<>>
             any == IF best.any_cost = NullSlot \/ cost < best.any_cost
                    THEN [best EXCEPT !.any = idx, !.any_cost = cost] ELSE best
         IN  IF prefer_pm /\ _is_pm(SlotAt(q.slots, idx))
                /\ (any.pm_cost = NullSlot \/ cost < any.pm_cost)
             THEN [any EXCEPT !.pm = idx, !.pm_cost = cost] ELSE any

\* the scan of range(lo, hi) in ascending order, the lower half before the
\* upper half
RECURSIVE fallback_scan(_, _, _, _, _, _)
fallback_scan(q, a, b, lo, hi, best) ==
    IF lo >= hi THEN best
    ELSE IF hi = lo + 1 THEN fallback_step(q, a, b, lo, best)
    ELSE LET mid == (lo + hi) \div 2
             lower == fallback_scan(q, a, b, lo, mid, best)
         IN  IF lower = best THEN fallback_scan(q, a, b, mid, hi, best)
             ELSE fallback_scan(q, a, b, mid, hi, lower)

fallback_slot(q, a, b) ==
    LET best == fallback_scan(q, a, b, 0, Len(q.slots) - q.duration_slots + 1,
                    [any |-> NullSlot, any_cost |-> NullSlot, pm |-> NullSlot, pm_cost |-> NullSlot])
        prefer_pm == a # <<>> /\ b # <<>>
    IN  IF prefer_pm /\ best.pm # NullSlot THEN best.pm ELSE best.any

\* [idx, phase]: the index or NullSlot, and the phase that returned it
_pick_best_slot_index(q, user_to_available) ==
    LET a == user_to_available[q.user1_id]
        b == user_to_available[q.user2_id]
        common == common_slot(q, a, b, 1, 1)
    IN  IF common # NullSlot THEN [idx |-> common, phase |-> "common"]
        ELSE [idx |-> fallback_slot(q, a, b), phase |-> "fallback"]

-----------------------------------------------------------------------------
(* MatchSchedulingService.schedule_tournament_matches *)

gap_slots_of(gap_minutes) == IF gap_minutes > 0 THEN CeilDiv(gap_minutes, slot_minutes) ELSE 0

duration_minutes_of(best_of) == base_match_duration_minutes * best_of
duration_slots_of(best_of) == CeilDiv(duration_minutes_of(best_of), slot_minutes)

intake_with_scheduled_at(ms) ==
    SelectSeq([k \in 1..Len(ms) |-> k],
              LAMBDA k : /\ ms[k].status = SCHEDULED
                         /\ ms[k].entrant1 # NoEntrant
                         /\ ms[k].entrant2 # NoEntrant)

\* the intake: ids of the SCHEDULED matches without scheduled_at and with both
\* entrants, by id
intake_ids(ms) ==
    SelectSeq([k \in 1..Len(ms) |-> k],
              LAMBDA k : /\ ms[k].status = SCHEDULED
                         /\ ms[k].scheduled_at = NullTime
                         /\ ms[k].entrant1 # NoEntrant
                         /\ ms[k].entrant2 # NoEntrant)

\* entrant -> captain for the entrants that have one
_resolve_entrant_captains(es, entrant_ids) ==
    [e \in {x \in entrant_ids : es[x].captain # NoUser} |-> es[e].captain]

\* entrant_to_user_id.get(entrant_id)
captain_of(entrant_to_user_id, e) ==
    IF e \in DOMAIN entrant_to_user_id THEN entrant_to_user_id[e] ELSE NoUser

\* the seeding of the reservations from the matches that have a scheduled_at
already_scheduled_ids(ms, entrant_ids) ==
    LET ids == SelectSeq([k \in 1..Len(ms) |-> k],
                  LAMBDA k : /\ ms[k].scheduled_at # NullTime
                             /\ ms[k].entrant1 # NoEntrant
                             /\ ms[k].entrant2 # NoEntrant
                             /\ (ms[k].entrant1 \in entrant_ids \/ ms[k].entrant2 \in entrant_ids))
        keyed == sort_by_key([k \in 1..Len(ids) |-> <<(<<ms[ids[k]].scheduled_at, ids[k]>>), ids[k]>>])
    IN  [k \in 1..Len(keyed) |-> keyed[k][2]]

RECURSIVE seed_reservations(_, _, _, _, _, _, _)
seed_reservations(ms, ids, k, entrant_to_user_id, slot0, gap_slots, user_to_reserved) ==
    IF k > Len(ids) THEN user_to_reserved
    ELSE LET em == ms[ids[k]]
             u1 == captain_of(entrant_to_user_id, em.entrant1)
             u2 == captain_of(entrant_to_user_id, em.entrant2)
             duration_slots == duration_slots_of(Max(em.best_of, 1))
             start_i == _dt_to_slot_index(em.scheduled_at, slot0)
             reserve_slots == duration_slots + gap_slots
         IN  seed_reservations(ms, ids, k + 1, entrant_to_user_id, slot0, gap_slots,
                _reserve_interval(
                    _reserve_interval(user_to_reserved, u1, start_i, reserve_slots),
                    u2, start_i, reserve_slots))

\* reserving the chosen interval for both captains
reserve_both(user_to_reserved, u1, u2, idx, reserve_slots) ==
    _reserve_interval(_reserve_interval(user_to_reserved, u1, idx, reserve_slots),
                      u2, idx, reserve_slots)

\* c: the values fixed before the loop.  The result holds the matches given a
\* slot so far (scheduled) and whether the loop ran to its end
RECURSIVE schedule_loop(_, _, _, _)
schedule_loop(c, k, user_to_reserved, scheduled) ==
    IF k > Len(c.order) THEN [ok |-> TRUE, scheduled |-> scheduled, reserved |-> user_to_reserved]
    ELSE LET id == c.order[k]
             m == c.matches[id]
             u1 == c.entrant_to_user_id[m.entrant1]
             u2 == c.entrant_to_user_id[m.entrant2]
             duration_slots == duration_slots_of(m.best_of)
             q == [slots |-> c.slots, duration_minutes |-> duration_minutes_of(m.best_of),
                   duration_slots |-> duration_slots, gap_slots |-> c.gap_slots,
                   end_at |-> c.end_at, user1_id |-> u1, user2_id |-> u2,
                   user_to_reserved |-> user_to_reserved]
             pick == _pick_best_slot_index(q, c.duration_slots_to_user_available[duration_slots])
         IN  IF pick.idx = NullSlot
             THEN [ok |-> FALSE, scheduled |-> scheduled, reserved |-> user_to_reserved]
             ELSE schedule_loop(c, k + 1,
                    reserve_both(user_to_reserved, u1, u2, pick.idx,
                                 duration_slots + c.gap_slots),
                    Append(scheduled,
                           [id |-> id, idx |-> pick.idx, phase |-> pick.phase,
                            scheduled_at |-> SlotAt(c.slots, pick.idx)]))

\* Match.objects.bulk_update(scheduled, fields=["scheduled_at"])
bulk_update_scheduled(ms, scheduled) ==
    [k \in 1..Len(ms) |->
        IF \E x \in Range(scheduled) : x.id = k
        THEN [ms[k] EXCEPT !.scheduled_at =
                (CHOOSE x \in Range(scheduled) : x.id = k).scheduled_at]
        ELSE ms[k]]

SchedRaised(db, detail, scheduled) ==
    [ok |-> FALSE, detail |-> detail, db |-> db, scheduled |-> 0, skipped |-> 0,
     assigned |-> scheduled, intake |-> <<>>]
SchedReturned(db, scheduled, intake) ==
    [ok |-> TRUE, detail |-> "", db |-> db, scheduled |-> Len(scheduled), skipped |-> 0,
     assigned |-> scheduled, intake |-> intake]

\* the order of the loop: the intake sorted by (stage.order, overlap_flex)
schedule_order(db, intake, entrant_to_user_id, duration_slots_to_user_available) ==
    LET overlap_flex(id) ==
            LET m == db.matches[id]
                ua == duration_slots_to_user_available[duration_slots_of(m.best_of)]
            IN  _count_intersection(ua[entrant_to_user_id[m.entrant1]],
                                    ua[entrant_to_user_id[m.entrant2]])
        keyed == sort_by_key([k \in 1..Len(intake) |->
                    <<(<<db.stages[db.matches[intake[k]].stage].order, overlap_flex(intake[k])>>),
                      intake[k]>>])
    IN  [k \in 1..Len(keyed) |-> keyed[k][2]]

\* the body of the transaction
schedule_body(db, availabilities) ==
    LET start_at == db.tour.starts_at
        end_at == db.tour.ends_at
        slots == _build_slots(start_at, end_at)
        gap_slots == gap_slots_of(db.tour.game_gaps)
        ms == db.matches
        intake == intake_ids(ms)
        entrant_ids == {ms[id].entrant1 : id \in Range(intake)}
                       \cup {ms[id].entrant2 : id \in Range(intake)}
        entrant_to_user_id == _resolve_entrant_captains(db.entrants, entrant_ids)
        user_ids == Range(entrant_to_user_id)
        expanded == _expand_weekly_availability(availabilities, user_ids, start_at, end_at)
        duration_slots_set == {duration_slots_of(ms[id].best_of) : id \in Range(intake)}
        duration_slots_to_user_available ==
            [d \in duration_slots_set |->
                _compute_user_available_start_indices(slots, d, expanded.intervals)]
        seeded == seed_reservations(ms, already_scheduled_ids(ms, entrant_ids), 1,
                      entrant_to_user_id, slots[1], gap_slots,
                      [u \in user_ids \cup {NoUser} |-> <<>>])
        c == [slots |-> slots, gap_slots |-> gap_slots, end_at |-> end_at, matches |-> ms,
              entrant_to_user_id |-> entrant_to_user_id,
              duration_slots_to_user_available |-> duration_slots_to_user_available,
              order |-> schedule_order(db, intake, entrant_to_user_id,
                                       duration_slots_to_user_available)]
        looped == schedule_loop(c, 1, seeded, <<>>)
    IN  IF slots = <<>>
        THEN SchedRaised(db, "Tournament scheduling window has no available slots.", <<>>)
        ELSE IF intake = <<>> THEN SchedReturned(db, <<>>, intake)
        ELSE IF DOMAIN entrant_to_user_id # entrant_ids
        THEN SchedRaised(db, "Entrants missing captain", <<>>)
        ELSE IF ~expanded.ok THEN SchedRaised(db, expanded.detail, <<>>)
        ELSE IF ~looped.ok
        THEN SchedRaised(db, "Could not schedule all matches within tournament time range.",
                         looped.scheduled)
        ELSE SchedReturned([db EXCEPT !.matches = bulk_update_scheduled(ms, looped.scheduled)],
                           looped.scheduled, intake)

\* the same loop saving each match as it is given a slot, outside a transaction
schedule_saving_each_match(db, availabilities) ==
    LET out == schedule_body(db, availabilities)
    IN  [out EXCEPT !.db.matches = bulk_update_scheduled(db.matches, out.assigned)]

schedule_tournament_matches(db, availabilities) ==
    atomic_exit(db, schedule_body(db, availabilities))

-----------------------------------------------------------------------------
(* The inputs of the model *)

At(hour, minute) == hour * SECONDS_PER_HOUR + minute * SECONDS_PER_MINUTE
Row(from, to) == [start_offset |-> from, end_offset |-> to]

\* tournament windows on a Monday: on the grid, with seconds on a grid minute,
\* off the grid, and empty
WindowChoices ==
    {[starts_at |-> At(10, 0), ends_at |-> At(13, 0)],
     [starts_at |-> At(10, 0) + 30, ends_at |-> At(13, 0)],
     [starts_at |-> At(10, 7), ends_at |-> At(13, 0)],
     [starts_at |-> At(10, 0), ends_at |-> At(10, 0)]}

GapChoices == {0, 20}

\* the weekly windows of one user: none, a morning, a midday that runs past the
\* end of the tournament, one shorter than a match
RowChoices ==
    {<<>>,
     <<Row(At(10, 0), At(12, 0))>>,
     <<Row(At(11, 0), At(13, 20))>>,
     <<Row(At(10, 0), At(10, 45))>>}

\* the instants a client sets a match's scheduled_at to: off the 15-minute grid
PatchTimes == {At(10, 7)}

CaptainId(e) == 10 + e

TournamentIds == {7}

Formats == {LEAGUE, SINGLE_ELIM, "SWISS"}

\* the job while nobody has enqueued it
NoTask == [pc |-> "none", format |-> "", retries |-> 0, result |-> <<>>]

\* the record of a service call: kind is "returned", "validation" (a
\* ValidationError) or "error" (any other exception)
Call(call, format, out, db, task_before, result) ==
    [call |-> call, format |-> format, ok |-> out.ok,
     kind |-> IF out.ok THEN "returned" ELSE "validation",
     detail |-> out.detail, before |-> db, task_before |-> task_before, out |-> result]

NoCall == [call |-> "none", format |-> "", ok |-> TRUE, kind |-> "", detail |-> "",
           before |-> <<>>, task_before |-> NoTask, out |-> <<>>]

BuildOut(out) == [stage_id |-> out.stage_id, match_count |-> out.match_count]
SchedOut(out) == [scheduled |-> out.scheduled, skipped |-> out.skipped,
                  assigned |-> out.assigned, intake |-> out.intake]

IdOrder(S) == CHOOSE f \in Perms(S) : \A i, j \in DOMAIN f : i < j => f[i] < f[j]

SoloEntrant(e) == [status |-> ACTIVE, member_count |-> 1, captain |-> CaptainId(e)]

-----------------------------------------------------------------------------
(* Direct calls of TournamentService.build_structure *)

InitBuild ==
    /\ \E tid \in TournamentIds, status \in {REGISTRATION, RUNNING, FINISHED},
          team_size \in {1, 2} :
         tour = [id |-> tid, status |-> status, team_size |-> team_size,
                 starts_at |-> At(10, 0), ends_at |-> At(13, 0), game_gaps |-> 0]
    /\ \E n \in 0..MaxEntrants :
         entrants \in {es \in [1..n -> [status : {ACTIVE, DROPPED, DISQUALIFIED},
                                        member_count : {1, 2},
                                        captain : {NoUser}]] :
                         \A e \in 1..n :
                            /\ es[e].captain = NoUser
                            /\ e > MaxMixed =>
                                 /\ es[e].status = ACTIVE
                                 /\ es[e].member_count = tour.team_size}
    /\ stages \in {<<>>, <<NewStage(LEAGUE)>>}
    /\ stages # <<>> => tour.status = REGISTRATION
    /\ matches = <<>>
    /\ avail = <<>>
    /\ task = NoTask
    /\ last = NoCall

CallBuild ==
    \E format \in Formats, loaded \in LoadOrders(Db(tour, entrants, stages, matches)) :
        LET db == Db(tour, entrants, stages, matches)
            out == build_structure(db, format, loaded)
        IN  /\ tour' = out.db.tour
            /\ entrants' = out.db.entrants
            /\ stages' = out.db.stages
            /\ matches' = out.db.matches
            /\ last' = Call("build", format, out, db, task, BuildOut(out))
            /\ UNCHANGED <<avail, task>>

NextBuild == CallBuild

SpecBuild == InitBuild /\ [][NextBuild]_vars

-----------------------------------------------------------------------------
(* Direct calls of MatchSchedulingService.schedule_tournament_matches, on a     *)
(* tournament that build_structure has built                                    *)

\* the rows after build_structure on n solo entrants, loaded by id
BuiltDb(n, captains, window, gap, format) ==
    build_structure(
        Db([id |-> CHOOSE t \in TournamentIds : TRUE, status |-> REGISTRATION, team_size |-> 1,
            starts_at |-> window.starts_at, ends_at |-> window.ends_at, game_gaps |-> gap],
           [e \in 1..n |-> [status |-> ACTIVE, member_count |-> 1, captain |-> captains[e]]],
           <<>>, <<>>),
        format, IdOrder(1..n)).db

InitSched ==
    /\ \E n \in 2..MaxSchedEntrants, window \in WindowChoices, gap \in GapChoices,
          format \in {LEAGUE, SINGLE_ELIM}, orphan \in BOOLEAN :
         LET captains == [e \in 1..n |-> IF orphan /\ e = 1 THEN NoUser ELSE CaptainId(e)]
             db == BuiltDb(n, captains, window, gap, format)
         IN  /\ orphan => window = [starts_at |-> At(10, 0), ends_at |-> At(13, 0)]
             /\ tour = db.tour
             /\ entrants = db.entrants
             /\ stages = db.stages
             /\ matches = db.matches
             /\ avail \in [{CaptainId(e) : e \in 1..n} -> RowChoices]
    /\ task = NoTask
    /\ last = NoCall

CallSchedule ==
    \E out \in {schedule_tournament_matches(Db(tour, entrants, stages, matches), avail)} :
        /\ matches' = out.db.matches
        /\ last' = Call("schedule", "", out, Db(tour, entrants, stages, matches), task,
                        SchedOut(out))
        /\ UNCHANGED <<tour, entrants, stages, avail, task>>

\* PATCH /matches/<id>/ with a scheduled_at: MatchSerializer takes any instant,
\* on the scheduler's grid or off it.  At most MaxPatches matches are given one.
PatchMatch ==
    /\ Cardinality({j \in DOMAIN matches : matches[j].scheduled_at \in PatchTimes}) < MaxPatches
    /\ \E k \in DOMAIN matches, at \in PatchTimes :
         /\ matches[k].scheduled_at # at
         /\ matches' = [matches EXCEPT ![k].scheduled_at = at]
    /\ last' = [NoCall EXCEPT !.call = "patch"]
    /\ UNCHANGED <<tour, entrants, stages, avail, task>>

\* PATCH /matches/<id>/ twice, as one step: the result of a scheduled match of a
\* SINGLE_ELIM round is reported and its winner is put into the next round.
ReportResult ==
    \E k \in DOMAIN matches, slot \in {1, 2} :
      \E j \in DOMAIN matches :
        LET m == matches[k]
            winner == IF slot = 1 THEN m.entrant1 ELSE m.entrant2
            done == [m EXCEPT !.status = FINISHED, !.winner_slot = slot,
                              !.score1 = IF slot = 1 THEN wins_needed(m.best_of) ELSE 0,
                              !.score2 = IF slot = 2 THEN wins_needed(m.best_of) ELSE 0]
        IN  /\ stages[m.stage].type = SINGLE_ELIM
            /\ m.status = SCHEDULED
            /\ m.scheduled_at # NullTime
            /\ m.entrant1 # NoEntrant /\ m.entrant2 # NoEntrant
            /\ matches[j].stage = m.stage
            /\ matches[j].round_number = m.round_number + 1
            /\ matches[j].order = m.order \div 2
            /\ matches' = [matches EXCEPT
                              ![k] = done,
                              ![j] = IF m.order % 2 = 0 THEN [@ EXCEPT !.entrant1 = winner]
                                     ELSE [@ EXCEPT !.entrant2 = winner]]
            /\ last' = [NoCall EXCEPT !.call = "patch"]
            /\ UNCHANGED <<tour, entrants, stages, avail, task>>

NextSched == CallSchedule \/ PatchMatch \/ ReportResult

SpecSched == InitSched /\ [][NextSched]_vars

-----------------------------------------------------------------------------
(* The start endpoint and build_tournament_structure_task under Celery's       *)
(* autoretry                                                                    *)

\* the checks of the start view before it enqueues the task
start_preconditions(db) ==
    /\ db.tour.status \notin {RUNNING, FINISHED}
    /\ db.stages = <<>>
    /\ LET active == ActiveIds(db.entrants)
           complete == {e \in active : db.entrants[e].member_count = db.tour.team_size}
       IN  IF db.tour.team_size > 1 THEN Cardinality(complete) >= 2
           ELSE Cardinality(active) >= 2

\* what one attempt of the task did: whether an exception left it, how each
\* service call ended ("none": not called, "returned", "validation": a
\* ValidationError, "error": any other exception), the rows it left, its result
Attempt(db, raised, build, sched, detail, result) ==
    [db |-> db, raised |-> raised, build |-> build, sched |-> sched, detail |-> detail,
     result |-> result]

NoResult == <<>>

\* a scheduler ValidationError leaving the task
sched_validation_propagates(tournament_id, res, sched) ==
    IF sched.ok
    THEN Attempt(sched.db, FALSE, "returned", "returned", "",
                 [tournament_id |-> tournament_id, stage_id |-> res.stage_id,
                  matches_created |-> res.match_count,
                  scheduling |-> [tournament_id |-> tournament_id,
                                  scheduled |-> sched.scheduled, skipped |-> sched.skipped]])
    ELSE Attempt(sched.db, TRUE, "returned", "validation", sched.detail, NoResult)

\* try: sched = schedule_tournament_matches(...); except ValidationError: the
\* zero record; res["scheduling"] = sched; return res
task_after_schedule(tournament_id, res, sched) ==
    Attempt(sched.db, FALSE, "returned", IF sched.ok THEN "returned" ELSE "validation",
            sched.detail,
            [tournament_id |-> tournament_id, stage_id |-> res.stage_id,
             matches_created |-> res.match_count,
             scheduling |-> IF sched.ok
                            THEN [tournament_id |-> tournament_id,
                                  scheduled |-> sched.scheduled, skipped |-> sched.skipped]
                            ELSE [tournament_id |-> tournament_id,
                                  scheduled |-> 0, skipped |-> 0]])

\* the task from the return of build_structure on; sched_error: the scheduler
\* ends in an exception that is no ValidationError (its transaction rolled back)
task_after_build(res, availabilities, sched_error) ==
    IF ~res.ok THEN Attempt(res.db, TRUE, "validation", "none", res.detail, NoResult)
    ELSE IF sched_error THEN Attempt(res.db, TRUE, "returned", "error", "", NoResult)
    ELSE task_after_schedule(res.db.tour.id, res,
                             schedule_tournament_matches(res.db, availabilities))

\* one attempt of the task; build_error: build_structure ends in an exception
\* that is no ValidationError (its transaction rolled back)
build_tournament_structure_task(db, availabilities, format, loaded, build_error, sched_error) ==
    IF build_error THEN Attempt(db, TRUE, "error", "none", "", NoResult)
    ELSE task_after_build(build_structure(db, format, loaded), availabilities, sched_error)

\* autoretry_for=(Exception,), max_retries: the job after an attempt
autoretry(job, att) ==
    IF ~att.raised THEN [job EXCEPT !.pc = "done", !.result = att.result]
    ELSE IF job.retries < max_retries
    THEN [job EXCEPT !.pc = "retry", !.retries = @ + 1]
    ELSE [job EXCEPT !.pc = "failed"]

\* the windows of the tournaments the task is started on: three hours, and empty
TaskWindowChoices ==
    {w \in WindowChoices : w.starts_at = At(10, 0)}

Init ==
    /\ \E tid \in TournamentIds, window \in TaskWindowChoices :
         tour = [id |-> tid, status |-> REGISTRATION, team_size |-> 1,
                 starts_at |-> window.starts_at, ends_at |-> window.ends_at,
                 game_gaps |-> 0]
    /\ \E n \in 1..MaxTaskEntrants :
         /\ entrants = [e \in 1..n |-> SoloEntrant(e)]
         /\ avail \in [{CaptainId(e) : e \in 1..n} -> RowChoices]
    /\ stages = <<>>
    /\ matches = <<>>
    /\ task = [NoTask EXCEPT !.pc = "idle"]
    /\ last = NoCall

Start ==
    /\ task.pc = "idle"
    /\ start_preconditions(Db(tour, entrants, stages, matches))
    /\ \E format \in {LEAGUE, SINGLE_ELIM} :
         task' = [task EXCEPT !.pc = "queued", !.format = format]
    /\ UNCHANGED <<tour, entrants, stages, matches, avail, last>>

RunTask ==
    /\ task.pc \in {"queued", "retry"}
    /\ \E loaded \in LoadOrders(Db(tour, entrants, stages, matches)),
          build_error \in BOOLEAN, sched_error \in BOOLEAN :
         \E att \in {build_tournament_structure_task(Db(tour, entrants, stages, matches),
                        avail, task.format, loaded, build_error, sched_error)} :
            /\ tour' = att.db.tour
            /\ entrants' = att.db.entrants
            /\ stages' = att.db.stages
            /\ matches' = att.db.matches
            /\ task' = autoretry(task, att)
            /\ last' = [call |-> "task", format |-> task.format, ok |-> ~att.raised,
                        kind |-> IF att.raised THEN "error" ELSE "returned",
                        detail |-> att.detail,
                        before |-> Db(tour, entrants, stages, matches),
                        task_before |-> task,
                        out |-> [raised |-> att.raised, build |-> att.build,
                                 sched |-> att.sched, result |-> att.result]]
            /\ UNCHANGED avail

Next == Start \/ RunTask

Spec == Init /\ [][Next]_vars

-----------------------------------------------------------------------------
(* Concurrent build_structure calls for one tournament: each job takes the     *)
(* row lock of the tournament, runs the body of the transaction on what is     *)
(* committed, and commits or rolls back, which frees the lock                   *)

NoLock == 0

\* Tournament.objects.get(id=...) without the row lock: nobody waits
select_without_lock(lock, p) == [granted |-> TRUE, lock |-> lock]

\* Tournament.objects.select_for_update().get(id=...): granted when no other
\* transaction holds the row, which the job then holds
select_for_update(lock, p) == [granted |-> lock = NoLock, lock |-> p]

\* the rows after the commit of a transaction that read `before` and left
\* `out`, on top of what is committed at that moment: its new stage and match
\* rows are added, its deletions and its status update applied
commit_writes(now, before, out) ==
    LET shift == Len(now.stages) - Len(before.stages)
        new_stages == SubSeq(out.db.stages, Len(before.stages) + 1, Len(out.db.stages))
        new_matches == SubSeq(out.db.matches, Len(before.matches) + 1, Len(out.db.matches))
    IN  Db([now.tour EXCEPT !.status = out.db.tour.status],
           [e \in (DOMAIN now.entrants) \cap (DOMAIN out.db.entrants) |-> now.entrants[e]],
           now.stages \o new_stages,
           now.matches \o [k \in 1..Len(new_matches) |->
                              [new_matches[k] EXCEPT !.stage = @ + shift]])

NewJob == [pc |-> "new", format |-> "", retries |-> 0, before |-> <<>>, out |-> <<>>]

InitConc ==
    /\ \E tid \in TournamentIds :
         tour = [id |-> tid, status |-> REGISTRATION, team_size |-> 1,
                 starts_at |-> At(10, 0), ends_at |-> At(13, 0), game_gaps |-> 0]
    /\ \E n \in 1..MaxConcEntrants : entrants = [e \in 1..n |-> SoloEntrant(e)]
    /\ stages = <<>>
    /\ matches = <<>>
    /\ avail = <<>>
    /\ task = [lock |-> NoLock, edits |-> 0, jobs |-> [p \in 1..MaxJobs |-> NewJob]]
    /\ last = NoCall

\* POST start: the view checks the tournament without a lock and enqueues a job
Enqueue(p) ==
    /\ task.jobs[p].pc = "new"
    /\ start_preconditions(Db(tour, entrants, stages, matches))
    /\ \E format \in {LEAGUE, SINGLE_ELIM} :
         task' = [task EXCEPT !.jobs[p].pc = "ready", !.jobs[p].format = format]
    /\ UNCHANGED <<tour, entrants, stages, matches, avail, last>>

\* the first statement of the transaction
Acquire(p) ==
    /\ task.jobs[p].pc = "ready"
    /\ \E got \in {select_for_update(task.lock, p)} :
         /\ got.granted
         /\ task' = [task EXCEPT !.lock = got.lock, !.jobs[p].pc = "locked"]
    /\ UNCHANGED <<tour, entrants, stages, matches, avail, last>>

\* the rest of the body, on the committed rows; its writes stay in the
\* transaction
Body(p) ==
    /\ task.jobs[p].pc = "locked"
    /\ \E loaded \in LoadOrders(Db(tour, entrants, stages, matches)) :
         \E out \in {build_structure_body(Db(tour, entrants, stages, matches),
                                          task.jobs[p].format, loaded)} :
            task' = [task EXCEPT !.jobs[p].pc = "ran",
                                 !.jobs[p].before = Db(tour, entrants, stages, matches),
                                 !.jobs[p].out = out]
    /\ UNCHANGED <<tour, entrants, stages, matches, avail, last>>

\* leaving the atomic block: commit on return, rollback on ValidationError
Finish(p) ==
    /\ task.jobs[p].pc = "ran"
    /\ \E job \in {task.jobs[p]} :
         \E db \in {IF job.out.ok
                    THEN commit_writes(Db(tour, entrants, stages, matches), job.before, job.out)
                    ELSE Db(tour, entrants, stages, matches)} :
            /\ tour' = db.tour
            /\ entrants' = db.entrants
            /\ stages' = db.stages
            /\ matches' = db.matches
            /\ task' = [task EXCEPT !.lock = IF @ = p THEN NoLock ELSE @,
                                    !.jobs[p].pc = "done"]
            /\ last' = Call("build", job.format, job.out, job.before, NoTask,
                            BuildOut(job.out))
    /\ UNCHANGED avail

\* the ValidationError leaves the task, which Celery runs again
Retry(p) ==
    /\ task.jobs[p].pc = "done"
    /\ ~task.jobs[p].out.ok
    /\ task.jobs[p].retries < Min(max_retries, MaxConcRetries)
    /\ task' = [task EXCEPT !.jobs[p].pc = "ready", !.jobs[p].retries = @ + 1]
    /\ UNCHANGED <<tour, entrants, stages, matches, avail, last>>

\* a staff user saves the tournament with another status in the admin site; the
\* UPDATE waits for the row lock
AdminSetsStatus ==
    /\ task.edits < MaxAdminEdits
    /\ task.lock = NoLock
    /\ \E status \in {REGISTRATION, RUNNING, FINISHED} \ {tour.status} :
         tour' = [tour EXCEPT !.status = status]
    /\ task' = [task EXCEPT !.edits = @ + 1]
    /\ last' = [NoCall EXCEPT !.call = "admin"]
    /\ UNCHANGED <<entrants, stages, matches, avail>>

NextConc ==
    \/ \E p \in 1..MaxJobs : Enqueue(p) \/ Acquire(p) \/ Body(p) \/ Finish(p) \/ Retry(p)
    \/ AdminSetsStatus

SpecConc == InitConc /\ [][NextConc]_vars

-----------------------------------------------------------------------------
(* A series between two captains: further matches of the same two entrants are *)
(* created with POST /matches/ and the scheduler is run on them                 *)

\* the tournament windows of a series: Monday 10:00 to Tuesday 22:00, and the
\* Monday evening alone
SeriesWindowChoices ==
    {[starts_at |-> At(10, 0), ends_at |-> SECONDS_PER_DAY + At(22, 0)],
     [starts_at |-> At(18, 0), ends_at |-> At(22, 0)]}

SeriesGapChoices == {0, 60}

\* the weekly windows of a captain of a series: the Monday evening, a shorter
\* evening, none
SeriesRowChoices ==
    {<<Row(At(18, 0), At(22, 0))>>,
     <<Row(At(18, 0), At(20, 0))>>,
     <<>>}

InitSeries ==
    /\ \E window \in SeriesWindowChoices, gap \in SeriesGapChoices :
         \E db \in {BuiltDb(2, [e \in 1..2 |-> CaptainId(e)], window, gap, LEAGUE)} :
             /\ tour = db.tour
             /\ entrants = db.entrants
             /\ stages = db.stages
             /\ matches = db.matches
    /\ avail \in [{CaptainId(e) : e \in 1..2} -> SeriesRowChoices]
    /\ task = NoTask
    /\ last = NoCall

\* POST /matches/: MatchSerializer takes any two different entrants
CreateMatch ==
    /\ Len(matches) < MaxSeries
    /\ \E e1, e2 \in DOMAIN entrants :
         /\ e1 # e2
         /\ matches' = Append(matches, NewMatch(1, 1, Len(matches), 1, e1, e2))
    /\ last' = [NoCall EXCEPT !.call = "post"]
    /\ UNCHANGED <<tour, entrants, stages, avail, task>>

NextSeries == CreateMatch \/ CallSchedule

SpecSeries == InitSeries /\ [][NextSeries]_vars

-----------------------------------------------------------------------------
(* TournamentHelper.bracket_seed_positions step by step: rec(n) takes the list  *)
(* rec(n // 2) returned and appends s and n + 1 - s for each s of it            *)

InitSeeds ==
    /\ task = [pc |-> "return", n |-> 1, prev |-> <<>>, out |-> <<1>>]
    /\ tour = <<>>
    /\ entrants = <<>>
    /\ stages = <<>>
    /\ matches = <<>>
    /\ avail = <<>>
    /\ last = NoCall

\* rec(n) returns out to rec(2 * n), which starts its loop over it
RecReturn ==
    /\ task.pc = "return"
    /\ 2 * task.n <= Pow2(MaxRounds)
    /\ task' = [pc |-> "loop", n |-> 2 * task.n, prev |-> task.out, out |-> <<>>]
    /\ UNCHANGED <<tour, entrants, stages, matches, avail, last>>

\* one pass of the loop: out.append(s); out.append(n + 1 - s)
RecAppend ==
    /\ task.pc = "loop"
    /\ \E s \in {task.prev[Len(task.out) \div 2 + 1]} :
         \E out \in {task.out \o interleave(<<s>>, task.n)} :
            task' = [task EXCEPT !.out = out,
                                 !.pc = IF Len(out) = task.n THEN "return" ELSE "loop"]
    /\ UNCHANGED <<tour, entrants, stages, matches, avail, last>>

NextSeeds == RecReturn \/ RecAppend

SpecSeeds == InitSeeds /\ [][NextSeeds]_vars

-----------------------------------------------------------------------------
(* UserAvailabilityService.create_or_merge, called by the create and the update *)
(* of UserAvailabilityViewSet for one user                                      *)

USER_AVAILABILITY_MAX_HOURS == 16
USER_AVAILABILITY_MAX_SECONDS == USER_AVAILABILITY_MAX_HOURS * 60 * 60

Time(hour, minute, second) == [hour |-> hour, minute |-> minute, second |-> second]

_to_offset(day, t) == day * 86400 + t.hour * 3600 + t.minute * 60 + t.second

\* [day, time]
_from_offset(offset) ==
    LET seconds == offset % 86400
    IN  [day |-> offset \div 86400,
         time |-> Time(seconds \div 3600, (seconds % 3600) \div 60, (seconds % 3600) % 60)]

\* UserAvailability.save(): the offsets are computed from the days and times
SavedWindow(id, start_day, start_time, end_day, end_time) ==
    [id |-> id, start_day |-> start_day, start_time |-> start_time,
     end_day |-> end_day, end_time |-> end_time,
     start_offset |-> _to_offset(start_day, start_time),
     end_offset |-> _to_offset(end_day, end_time)]

AvailRaised(rows, detail) == [ok |-> FALSE, detail |-> detail, rows |-> rows, id |-> 0, created |-> FALSE]
AvailReturned(rows, id, created) == [ok |-> TRUE, detail |-> "", rows |-> rows, id |-> id, created |-> created]

MinOf(S) == CHOOSE x \in S : \A y \in S : x <= y
MaxOf(S) == CHOOSE x \in S : \A y \in S : x >= y

\* merged_start and merged_end over the new window and overlap_list
merged_span(overlap_list, new_start, new_end) ==
    [start |-> MinOf({new_start} \cup {x.start_offset : x \in overlap_list}),
     end |-> MaxOf({new_end} \cup {x.end_offset : x \in overlap_list})]

\* rows: the stored windows of the user; instance_id 0 stands for None
create_or_merge(rows, next_id, start_day, start_time, end_day, end_time, instance_id) ==
    LET new_start == _to_offset(start_day, start_time)
        new_end == _to_offset(end_day, end_time)
        current == {x \in rows : x.id = instance_id}
        overlaps == {x \in rows : /\ x.id # instance_id
                                  /\ x.start_offset <= new_end
                                  /\ x.end_offset >= new_start}
        overlap_list == current \cup overlaps
        first == CHOOSE x \in overlap_list :
                    \A y \in overlap_list :
                        x.start_offset < y.start_offset
                        \/ (x.start_offset = y.start_offset /\ x.id <= y.id)
        target == IF current # {} THEN CHOOSE x \in current : TRUE ELSE first
        merged == merged_span(overlap_list, new_start, new_end)
        s == _from_offset(merged.start)
        e == _from_offset(merged.end)
    IN  IF new_end <= new_start
        THEN AvailRaised(rows, "End must be after start (across the week).")
        ELSE IF new_end - new_start > USER_AVAILABILITY_MAX_SECONDS
        THEN AvailRaised(rows, "Availability span cannot exceed 16 hours.")
        ELSE IF instance_id # 0 /\ current = {}
        THEN AvailRaised(rows, "Availability not found.")
        ELSE IF overlap_list # {}
        THEN IF merged.end - merged.start > USER_AVAILABILITY_MAX_SECONDS
             THEN AvailRaised(rows, "Merged availability span cannot exceed 16 hours.")
             ELSE AvailReturned((rows \ overlap_list)
                                  \cup {SavedWindow(target.id, s.day, s.time, e.day, e.time)},
                                target.id, FALSE)
        ELSE AvailReturned(rows \cup {SavedWindow(next_id, start_day, start_time,
                                                  end_day, end_time)},
                           next_id, TRUE)

AvailDays == {0, 1}
AvailHours == {0, 2, 4, 6, 8, 10}
AvailPoints == {[day |-> d, time |-> Time(h, 0, 0)] : d \in AvailDays, h \in AvailHours}

InitAvail ==
    /\ avail = {}
    /\ task = [next_id |-> 1]
    /\ last = NoCall
    /\ tour = <<>>
    /\ entrants = <<>>
    /\ stages = <<>>
    /\ matches = <<>>

\* the state after a call of create_or_merge that gave out
AvailDone(call, out) ==
    /\ out.created => task.next_id <= MaxWindows
    /\ avail' = out.rows
    /\ task' = [next_id |-> IF out.created THEN task.next_id + 1 ELSE task.next_id]
    /\ last' = [NoCall EXCEPT !.call = call, !.ok = out.ok, !.detail = out.detail,
                              !.out = [id |-> out.id, created |-> out.created]]
    /\ UNCHANGED <<tour, entrants, stages, matches>>

\* POST /availability/
CreateAvailability ==
    \E from, to \in AvailPoints :
      \E out \in {create_or_merge(avail, task.next_id, from.day, from.time,
                                  to.day, to.time, 0)} :
        AvailDone("create", out)

\* PUT or PATCH /availability/<id>/ of a row of the user
UpdateAvailability ==
    \E x \in avail, from, to \in AvailPoints :
      \E out \in {create_or_merge(avail, task.next_id, from.day, from.time,
                                  to.day, to.time, x.id)} :
        AvailDone("update", out)

NextAvail == CreateAvailability \/ UpdateAvailability

SpecAvail == InitAvail /\ [][NextAvail]_vars

\* ---- entrant membership: joins, teams, join requests, leaving, removal ----
\* One tournament in registration.  tour holds its team_size and owner,
\* entrants the TournamentEntrant rows, task the TournamentParticipant,
\* TournamentEntrantMember and TournamentTeamJoinRequest rows and the two id
\* sequences and the number of calls that returned.  Services run one after
\* the other, each in its own transaction; a call that raises changes nothing.

PENDING == "PENDING"
ACCEPTED == "ACCEPTED"
REJECTED == "REJECTED"
CANCELED == "CANCELED"

Users == 1..MaxUsers
\* the names offered to create_entrant; a solo entrant is named after its user
EntrantNames == {"red", "blue"}
username(user) == user

\* the database as the membership services see it
MDb(tournament, entrant_rows, rows) ==
    [tour |-> tournament, entrants |-> entrant_rows,
     participants |-> rows.participants, members |-> rows.members,
     requests |-> rows.requests,
     next_entrant |-> rows.next_entrant, next_member |-> rows.next_member]

MRows(db, calls) ==
    [participants |-> db.participants, members |-> db.members, requests |-> db.requests,
     next_entrant |-> db.next_entrant, next_member |-> db.next_member, calls |-> calls]

MemberRaised(db) == [raised |-> TRUE, db |-> db]
MemberReturned(db) == [raised |-> FALSE, db |-> db]

\* TournamentEntrantMember.objects.filter(entrant=...)
MembersOf(members, entrant_id) == {m \in members : m.entrant = entrant_id}

\* TournamentEntrantMember.objects.filter(entrant__tournament=tournament, user=user).exists()
in_a_team(db, user) == \E m \in db.members : m.user = user

\* is_owner: the owner of the tournament (staff users are not modelled apart)
can_manage(tournament, user) == user = tournament.owner

\* deleting entrant rows cascades to their memberships and join requests
delete_entrants(db, ids) ==
    [db EXCEPT !.entrants = {e \in @ : e.id \notin ids},
               !.members = {m \in @ : m.entrant \notin ids},
               !.requests = {r \in @ : r.entrant \notin ids}]

insert_entrant_with_captain(db, user, name) ==
    [db EXCEPT !.entrants = @ \cup {[id |-> db.next_entrant, name |-> name]},
               !.members = @ \cup {[id |-> db.next_member, entrant |-> db.next_entrant,
                                    user |-> user, is_captain |-> TRUE]},
               !.next_entrant = @ + 1,
               !.next_member = @ + 1]

can_join(db, user) ==
    /\ db.tour.status = REGISTRATION
    /\ user \notin db.participants
    /\ ~in_a_team(db, user)

\* join_public: a solo tournament gives the user an entrant of their own, named
\* after them, with the user as captain; a team tournament only a participant row
_join_user_to_tournament(db, user) ==
    IF ~can_join(db, user) THEN MemberRaised(db)
    ELSE IF db.tour.team_size = 1
         THEN IF \E e \in db.entrants : e.name = username(user)
              THEN MemberRaised(db)
              ELSE MemberReturned(insert_entrant_with_captain(
                       [db EXCEPT !.participants = @ \cup {user}], user, username(user)))
         ELSE MemberReturned([db EXCEPT !.participants = @ \cup {user}])

create_entrant(db, user, name) ==
    IF db.tour.team_size <= 1 THEN MemberRaised(db)
    ELSE IF user \notin db.participants THEN MemberRaised(db)
    ELSE IF in_a_team(db, user) THEN MemberRaised(db)
    ELSE IF \E e \in db.entrants : e.name = name THEN MemberRaised(db)
    ELSE MemberReturned(insert_entrant_with_captain(db, user, name))

create_request(db, user, entrant_id) ==
    IF db.tour.team_size <= 1 THEN MemberRaised(db)
    ELSE IF user \notin db.participants THEN MemberRaised(db)
    ELSE IF in_a_team(db, user) THEN MemberRaised(db)
    ELSE IF ~\E e \in db.entrants : e.id = entrant_id THEN MemberRaised(db)
    ELSE IF Cardinality(MembersOf(db.members, entrant_id)) >= db.tour.team_size
         THEN MemberRaised(db)
    ELSE IF \E r \in db.requests : r.entrant = entrant_id /\ r.requester = user
         THEN IF \E r \in db.requests :
                     r.entrant = entrant_id /\ r.requester = user /\ r.status = PENDING
              THEN MemberReturned(db)
              ELSE MemberRaised(db)
    ELSE MemberReturned([db EXCEPT !.requests = @ \cup
             {[entrant |-> entrant_id, requester |-> user, status |-> PENDING]}])

\* the request row req answered by user; an accepted requester joins as a plain
\* member and their other pending requests are canceled
respond(db, user, req, accept) ==
    IF req.status # PENDING THEN MemberRaised(db)
    ELSE IF ~can_manage(db.tour, user)
            /\ ~\E m \in db.members :
                   m.entrant = req.entrant /\ m.user = user /\ m.is_captain
         THEN MemberRaised(db)
    ELSE IF ~accept
         THEN MemberReturned([db EXCEPT !.requests =
                  (@ \ {req}) \cup {[req EXCEPT !.status = REJECTED]}])
    ELSE IF req.requester \notin db.participants THEN MemberRaised(db)
    ELSE IF in_a_team(db, req.requester) THEN MemberRaised(db)
    ELSE IF Cardinality(MembersOf(db.members, req.entrant)) >= db.tour.team_size
         THEN MemberRaised(db)
    ELSE MemberReturned(
             [db EXCEPT !.members = @ \cup {[id |-> db.next_member, entrant |-> req.entrant,
                                             user |-> req.requester, is_captain |-> FALSE]},
                        !.next_member = @ + 1,
                        !.requests = {IF r = req THEN [r EXCEPT !.status = ACCEPTED]
                                      ELSE IF r.requester = req.requester /\ r.status = PENDING
                                           THEN [r EXCEPT !.status = CANCELED]
                                           ELSE r : r \in @}])

\* a replacement that takes the newest remaining member
replacement_newest(members, entrant_id) ==
    CHOOSE m \in MembersOf(members, entrant_id) :
        \A o \in MembersOf(members, entrant_id) : m.id >= o.id

\* .filter(entrant=entrant).order_by("id").first(), asked only when a row is left
replacement(members, entrant_id) ==
    CHOOSE m \in MembersOf(members, entrant_id) :
        \A o \in MembersOf(members, entrant_id) : m.id <= o.id

make_captain(members, ids) ==
    {IF m.id \in ids THEN [m EXCEPT !.is_captain = TRUE] ELSE m : m \in members}

\* the tail of leave, after the membership row is deleted
leave_after_delete(db, entrant_id, was_captain) ==
    LET promoted == IF was_captain /\ MembersOf(db.members, entrant_id) # {}
                    THEN [db EXCEPT !.members =
                             make_captain(@, {replacement(db.members, entrant_id).id})]
                    ELSE db
    IN  IF MembersOf(promoted.members, entrant_id) = {}
        THEN delete_entrants(promoted, {entrant_id})
        ELSE promoted

leave(db, user, entrant_id) ==
    IF db.tour.team_size <= 1 THEN MemberRaised(db)
    ELSE IF ~\E e \in db.entrants : e.id = entrant_id THEN MemberRaised(db)
    ELSE IF ~\E m \in db.members : m.entrant = entrant_id /\ m.user = user
         THEN MemberRaised(db)
    ELSE LET membership == CHOOSE m \in db.members : m.entrant = entrant_id /\ m.user = user
         IN  MemberReturned(leave_after_delete([db EXCEPT !.members = @ \ {membership}],
                                               entrant_id, membership.is_captain))

\* the first row of each entrant in candidate_rows, ordered by entrant_id, id
chosen_member_ids(members, needs_captain_ids) ==
    {m.id : m \in {x \in members :
                      /\ x.entrant \in needs_captain_ids
                      /\ \A o \in MembersOf(members, x.entrant) : x.id <= o.id}}

\* the tail of remove_player in a team tournament, after the user's rows are deleted
remove_after_delete(db, affected_entrant_ids, captain_entrant_ids) ==
    LET entrants_with_captain == {m.entrant : m \in {x \in db.members :
                                      x.entrant \in captain_entrant_ids /\ x.is_captain}}
        needs_captain_ids == captain_entrant_ids \ entrants_with_captain
        promoted == [db EXCEPT !.members =
                        make_captain(@, chosen_member_ids(db.members, needs_captain_ids))]
    IN  delete_entrants(promoted, {e \in affected_entrant_ids :
                                      MembersOf(promoted.members, e) = {}})

remove_player(db, actor, user) ==
    IF actor # user /\ ~can_manage(db.tour, actor) THEN MemberRaised(db)
    ELSE LET gone == [db EXCEPT !.participants = @ \ {user}]
             affected == {m \in db.members : m.user = user}
         IN  IF db.tour.team_size <= 1
             THEN MemberReturned(delete_entrants(gone, {m.entrant : m \in affected}))
             ELSE IF affected = {} THEN MemberReturned(gone)
             ELSE MemberReturned(remove_after_delete(
                      [gone EXCEPT !.members = @ \ affected],
                      {m.entrant : m \in affected},
                      {m.entrant : m \in {x \in affected : x.is_captain}}))

InitEntrant ==
    /\ \E team_size \in 1..MaxTeamSize :
           tour = [status |-> REGISTRATION, team_size |-> team_size, owner |-> 1]
    /\ entrants = {}
    /\ stages = <<>>
    /\ matches = <<>>
    /\ avail = <<>>
    /\ task = [participants |-> {}, members |-> {}, requests |-> {},
               next_entrant |-> 1, next_member |-> 1, calls |-> 0]
    /\ last = [call |-> "none", was_captain |-> FALSE]

\* the last call that returned, and whether it took a captain's membership away
MemberCall(call, user) ==
    [call |-> call, was_captain |-> \E m \in task.members : m.user = user /\ m.is_captain]

JoinPublic ==
    \E user \in Users :
        \E out \in {_join_user_to_tournament(MDb(tour, entrants, task), user)} :
            /\ out.db.next_entrant <= MaxEntrantRows + 1
            /\ out.db.next_member <= MaxMemberRows + 1
            /\ entrants' = out.db.entrants
            /\ task.calls < MaxCalls
            /\ task' = MRows(out.db, IF out.raised THEN task.calls ELSE task.calls + 1)
            /\ last' = IF out.raised THEN last ELSE MemberCall("join", user)
            /\ UNCHANGED <<tour, stages, matches, avail>>

CreateEntrant ==
    \E user \in Users, name \in EntrantNames :
        \E out \in {create_entrant(MDb(tour, entrants, task), user, name)} :
            /\ out.db.next_entrant <= MaxEntrantRows + 1
            /\ out.db.next_member <= MaxMemberRows + 1
            /\ entrants' = out.db.entrants
            /\ task.calls < MaxCalls
            /\ task' = MRows(out.db, IF out.raised THEN task.calls ELSE task.calls + 1)
            /\ last' = IF out.raised THEN last ELSE MemberCall("create_entrant", user)
            /\ UNCHANGED <<tour, stages, matches, avail>>

CreateRequest ==
    \E user \in Users, entrant_id \in 1..MaxEntrantRows :
        \E out \in {create_request(MDb(tour, entrants, task), user, entrant_id)} :
            /\ entrants' = out.db.entrants
            /\ task.calls < MaxCalls
            /\ task' = MRows(out.db, IF out.raised THEN task.calls ELSE task.calls + 1)
            /\ last' = IF out.raised THEN last ELSE MemberCall("create_request", user)
            /\ UNCHANGED <<tour, stages, matches, avail>>

Respond ==
    \E user \in Users, req \in task.requests, accept \in BOOLEAN :
        \E out \in {respond(MDb(tour, entrants, task), user, req, accept)} :
            /\ out.db.next_member <= MaxMemberRows + 1
            /\ entrants' = out.db.entrants
            /\ task.calls < MaxCalls
            /\ task' = MRows(out.db, IF out.raised THEN task.calls ELSE task.calls + 1)
            /\ last' = IF out.raised THEN last ELSE MemberCall("respond", req.requester)
            /\ UNCHANGED <<tour, stages, matches, avail>>

Leave ==
    \E user \in Users, entrant_id \in 1..MaxEntrantRows :
        \E out \in {leave(MDb(tour, entrants, task), user, entrant_id)} :
            /\ entrants' = out.db.entrants
            /\ task.calls < MaxCalls
            /\ task' = MRows(out.db, IF out.raised THEN task.calls ELSE task.calls + 1)
            /\ last' = IF out.raised THEN last ELSE MemberCall("leave", user)
            /\ UNCHANGED <<tour, stages, matches, avail>>

RemovePlayer ==
    \E actor \in Users, user \in Users :
        \E out \in {remove_player(MDb(tour, entrants, task), actor, user)} :
            /\ entrants' = out.db.entrants
            /\ task.calls < MaxCalls
            /\ task' = MRows(out.db, IF out.raised THEN task.calls ELSE task.calls + 1)
            /\ last' = IF out.raised THEN last ELSE MemberCall("remove_player", user)
            /\ UNCHANGED <<tour, stages, matches, avail>>

NextEntrant ==
    \/ JoinPublic
    \/ CreateEntrant
    \/ CreateRequest
    \/ Respond
    \/ Leave
    \/ RemovePlayer

SpecEntrant == InitEntrant /\ [][NextEntrant]_vars

-----------------------------------------------------------------------------
(* Joining by invite link.  Each call is a transaction that locks the invite   *)
(* row, checks the link, joins the user and counts the use; the transactions   *)
(* of several callers run concurrently                                         *)

\* UPDATE ... SET uses = uses without the increment
use_not_counted(invite) == invite

\* TournamentInvite.objects.filter(id=invite.id).update(uses=F("uses") + 1)
count_use(invite) == [invite EXCEPT !.uses = @ + 1]

\* chk_invite_uses_lte_max_uses
uses_lte_max_uses(invite) == invite.uses <= invite.max_uses

\* "" when the link can be used, else the detail of the ValidationError
_can_use_link(invite) ==
    IF ~invite.is_active THEN "Invite is not active."
    ELSE IF invite.expired THEN "Invite has expired."
    ELSE IF invite.uses >= invite.max_uses THEN "Invite usage limit reached."
    ELSE ""

\* the transaction of join_by_invite on the committed rows db and invite row:
\* what it leaves when it commits, or the rows as they were when it raises
join_by_invite(db, invite, user) ==
    IF _can_use_link(invite) # ""
    THEN [raised |-> TRUE, detail |-> _can_use_link(invite), db |-> db, invite |-> invite]
    ELSE IF _join_user_to_tournament(db, user).raised
    THEN [raised |-> TRUE, detail |-> "join", db |-> db, invite |-> invite]
    ELSE IF ~uses_lte_max_uses(count_use(invite))
    THEN [raised |-> TRUE, detail |-> "IntegrityError", db |-> db, invite |-> invite]
    ELSE [raised |-> FALSE, detail |-> "",
          db |-> _join_user_to_tournament(db, user).db, invite |-> count_use(invite)]

InitInvite ==
    /\ \E team_size \in {1, 2} :
           tour = [status |-> REGISTRATION, team_size |-> team_size, owner |-> 1]
    /\ entrants = {}
    /\ stages = <<>>
    /\ matches = <<>>
    /\ avail = <<>>
    /\ \E is_active \in BOOLEAN, expired \in BOOLEAN, max_uses \in 1..MaxUses,
          users \in [1..MaxJoiners -> Users] :
           task = [participants |-> {}, members |-> {}, requests |-> {},
                   next_entrant |-> 1, next_member |-> 1,
                   invite |-> [is_active |-> is_active, expired |-> expired,
                               max_uses |-> max_uses, uses |-> 0],
                   lock |-> NoLock,
                   jobs |-> [p \in 1..MaxJoiners |->
                                [pc |-> "new", user |-> users[p], raised |-> FALSE,
                                 detail |-> ""]]]
    /\ last = [call |-> "none", raised |-> FALSE, uses_before |-> 0]

\* TournamentInvite.objects.select_for_update().get(token=invite_token)
InviteAcquire(p) ==
    /\ task.jobs[p].pc = "new"
    /\ \E got \in {select_for_update(task.lock, p)} :
         /\ got.granted
         /\ task' = [task EXCEPT !.lock = got.lock, !.jobs[p].pc = "locked"]
    /\ UNCHANGED <<tour, entrants, stages, matches, avail, last>>

\* the rest of the atomic block and its end: commit on return, rollback on an
\* error; either frees the row
InviteFinish(p) ==
    /\ task.jobs[p].pc = "locked"
    /\ \E out \in {join_by_invite(MDb(tour, entrants, task), task.invite, task.jobs[p].user)} :
         /\ entrants' = out.db.entrants
         /\ task' = [task EXCEPT !.participants = out.db.participants,
                                 !.members = out.db.members,
                                 !.next_entrant = out.db.next_entrant,
                                 !.next_member = out.db.next_member,
                                 !.invite = out.invite,
                                 !.lock = IF @ = p THEN NoLock ELSE @,
                                 !.jobs[p] = [pc |-> "done", user |-> task.jobs[p].user,
                                              raised |-> out.raised, detail |-> out.detail]]
         /\ last' = [call |-> "join_by_invite", raised |-> out.raised,
                     uses_before |-> task.invite.uses]
    /\ UNCHANGED <<tour, stages, matches, avail>>

NextInvite == \E p \in 1..MaxJoiners : InviteAcquire(p) \/ InviteFinish(p)

SpecInvite == InitInvite /\ [][NextInvite]_vars

-----------------------------------------------------------------------------
(* The seeding loop and the main loop of schedule_tournament_matches, one    *)
(* pass of a loop body per step, for two captains in scope                   *)

PickUser1 == CaptainId(1)
PickUser2 == CaptainId(2)
PickUsers == {PickUser1, PickUser2}

\* tournament windows on a Monday: across noon on the grid, and a morning that
\* starts off the grid
PickWindowChoices ==
    {[starts_at |-> At(10, 0), ends_at |-> At(15, 0)],
     [starts_at |-> At(10, 7), ends_at |-> At(13, 0)]}

\* the weekly windows of one captain: the whole day, a morning, bounds off the
\* grid, one shorter than a match, two windows that touch
PickRowChoices ==
    {<<Row(At(10, 0), At(15, 0))>>,
     <<Row(At(10, 0), At(12, 0))>>,
     <<Row(At(10, 5), At(11, 20))>>,
     <<Row(At(10, 0), At(10, 45))>>,
     <<Row(At(10, 0), At(11, 0)), Row(At(11, 0), At(12, 30))>>}

\* the scheduled_at of the matches that already have one
SeedTimes == {At(10, 0), At(11, 0)}

\* the captains of an already-scheduled match that touches the scope: both in
\* scope, or the second entrant outside it
SeedPairs == {<<PickUser1, PickUser2>>, <<PickUser1, NoUser>>}

BestOfChoices == {1, 3}

pick_slots == _build_slots(tour.starts_at, tour.ends_at)

pick_intervals == _expand_weekly_availability(avail, PickUsers, tour.starts_at, tour.ends_at)

\* duration_slots_to_user_available[duration_slots]
pick_available(duration_slots) ==
    _compute_user_available_start_indices(pick_slots, duration_slots, pick_intervals.intervals)

\* the arguments of _pick_best_slot_index for a match of the two captains
pick_query(best_of, user_to_reserved) ==
    [slots |-> pick_slots, duration_minutes |-> duration_minutes_of(best_of),
     duration_slots |-> duration_slots_of(best_of),
     gap_slots |-> gap_slots_of(tour.game_gaps), end_at |-> tour.ends_at,
     user1_id |-> PickUser1, user2_id |-> PickUser2,
     user_to_reserved |-> user_to_reserved]

InitPick ==
    /\ \E w \in PickWindowChoices, gap \in GapChoices :
         tour = [id |-> 7, status |-> RUNNING, team_size |-> 1,
                 starts_at |-> w.starts_at, ends_at |-> w.ends_at, game_gaps |-> gap]
    /\ entrants = [e \in 1..2 |-> SoloEntrant(e)]
    /\ stages = <<>>
    /\ matches = <<>>
    /\ avail \in [PickUsers -> PickRowChoices]
    /\ pick_intervals.ok
    /\ task = [reserved |-> [u \in PickUsers \cup {NoUser} |-> <<>>],
               seeds |-> 0, seed_at |-> 0, picks |-> 0, ok |-> TRUE]
    /\ last = [call |-> "none", best_of |-> 0, idx |-> NullSlot, phase |-> "",
               reserved |-> <<>>]

\* one pass of the loop over already_scheduled, which is ordered by
\* scheduled_at
SeedReserve ==
    /\ task.picks = 0
    /\ task.ok
    /\ task.seeds < MaxSeeds
    /\ \E pair \in SeedPairs, scheduled_at \in SeedTimes, best_of \in BestOfChoices :
         /\ scheduled_at >= task.seed_at
         /\ task' = [task EXCEPT
                !.reserved = reserve_both(@, pair[1], pair[2],
                                _dt_to_slot_index(scheduled_at, pick_slots[1]),
                                duration_slots_of(Max(best_of, 1))
                                    + gap_slots_of(tour.game_gaps)),
                !.seeds = @ + 1,
                !.seed_at = scheduled_at]
         /\ last' = [call |-> "seed", best_of |-> best_of, idx |-> NullSlot, phase |-> "",
                     reserved |-> task.reserved]
    /\ UNCHANGED <<tour, entrants, stages, matches, avail>>

\* one pass of the loop over the matches to schedule; the loop ends with the
\* ValidationError when no index is returned
PickSlot ==
    /\ task.ok
    /\ task.picks < MaxPicks
    /\ \E best_of \in BestOfChoices :
         \E pick \in {_pick_best_slot_index(pick_query(best_of, task.reserved),
                                            pick_available(duration_slots_of(best_of)))} :
           /\ task' = [task EXCEPT
                  !.reserved = IF pick.idx = NullSlot THEN @
                               ELSE reserve_both(@, PickUser1, PickUser2, pick.idx,
                                        duration_slots_of(best_of)
                                            + gap_slots_of(tour.game_gaps)),
                  !.picks = @ + 1,
                  !.ok = pick.idx # NullSlot]
           /\ last' = [call |-> "pick", best_of |-> best_of, idx |-> pick.idx,
                       phase |-> pick.phase, reserved |-> task.reserved]
    /\ UNCHANGED <<tour, entrants, stages, matches, avail>>

NextPick == SeedReserve \/ PickSlot

SpecPick == InitPick /\ [][NextPick]_vars

-----------------------------------------------------------------------------
(* The start indices the scheduler computes before its loops, for the        *)
(* availability of two captains                                              *)

\* the windows of SpecPick, one that starts 30 seconds after a grid instant,
\* and Sunday 22:00 to 12:00 of the Monday of the next week
StartsWindowChoices ==
    PickWindowChoices \cup
    {[starts_at |-> At(10, 0) + 30, ends_at |-> At(13, 0)],
     [starts_at |-> 6 * SECONDS_PER_DAY + At(22, 0), ends_at |-> WEEK_SECONDS + At(12, 0)]}

InitStarts ==
    /\ \E w \in StartsWindowChoices :
         tour = [id |-> 7, status |-> RUNNING, team_size |-> 1,
                 starts_at |-> w.starts_at, ends_at |-> w.ends_at, game_gaps |-> 0]
    /\ entrants = [e \in 1..2 |-> SoloEntrant(e)]
    /\ stages = <<>>
    /\ matches = <<>>
    /\ avail \in [PickUsers -> PickRowChoices]
    /\ pick_intervals.ok
    /\ task = <<>>
    /\ last = [call |-> "none", duration_slots |-> 0, intervals |-> <<>>, starts |-> <<>>]

\* duration_slots_to_user_available[duration_slots] for the matches of one
\* length
ComputeStarts ==
    /\ \E best_of \in BestOfChoices :
         last' = [call |-> "starts", duration_slots |-> duration_slots_of(best_of),
                  intervals |-> pick_intervals.intervals,
                  starts |-> pick_available(duration_slots_of(best_of))]
    /\ UNCHANGED <<tour, entrants, stages, matches, avail, task>>

NextStarts == ComputeStarts

SpecStarts == InitStarts /\ [][NextStarts]_vars

-----------------------------------------------------------------------------
(* Scheduler runs of one tournament at the same time.  Each run is a         *)
(* transaction: it locks the tournament row, reads the matches and computes  *)
(* their slots, then writes them and commits, which frees the row            *)

\* the weekly windows of one captain in these runs
RunRowChoices ==
    {<<Row(At(10, 0), At(12, 0))>>,
     <<Row(At(11, 0), At(13, 20))>>}

RunWindowChoices ==
    {[starts_at |-> At(10, 0), ends_at |-> At(13, 0)],
     [starts_at |-> At(10, 7), ends_at |-> At(13, 0)]}

NewRun == [pc |-> "new", ok |-> FALSE, detail |-> "", scheduled |-> 0, skipped |-> 0,
           assigned |-> <<>>]

InitRuns ==
    /\ \E n \in 2..MaxSchedEntrants, window \in RunWindowChoices, gap \in GapChoices,
          format \in {LEAGUE, SINGLE_ELIM} :
         LET db == BuiltDb(n, [e \in 1..n |-> CaptainId(e)], window, gap, format)
         IN  /\ tour = db.tour
             /\ entrants = db.entrants
             /\ stages = db.stages
             /\ matches = db.matches
             /\ avail \in [{CaptainId(e) : e \in 1..n} -> RunRowChoices]
    /\ task = [lock |-> NoLock, jobs |-> [p \in 1..MaxRuns |-> NewRun]]
    /\ last = [call |-> "none", run |-> 0]

\* Tournament.objects.select_for_update().get(id=tournament_id)
RunAcquire(p) ==
    /\ task.jobs[p].pc = "new"
    /\ \E got \in {select_for_update(task.lock, p)} :
         /\ got.granted
         /\ task' = [task EXCEPT !.lock = got.lock, !.jobs[p].pc = "locked"]
    /\ last' = [call |-> "acquire", run |-> p]
    /\ UNCHANGED <<tour, entrants, stages, matches, avail>>

\* the intake and the loops, on the rows committed at that moment
RunRead(p) ==
    /\ task.jobs[p].pc = "locked"
    /\ \E out \in {schedule_body(Db(tour, entrants, stages, matches), avail)} :
         task' = [task EXCEPT !.jobs[p] =
                     [pc |-> "computed", ok |-> out.ok, detail |-> out.detail,
                      scheduled |-> out.scheduled, skipped |-> out.skipped,
                      assigned |-> IF out.ok THEN out.assigned ELSE <<>>]]
    /\ last' = [call |-> "read", run |-> p]
    /\ UNCHANGED <<tour, entrants, stages, matches, avail>>

\* bulk_update and the end of the atomic block
RunCommit(p) ==
    /\ task.jobs[p].pc = "computed"
    /\ matches' = bulk_update_scheduled(matches, task.jobs[p].assigned)
    /\ task' = [task EXCEPT !.lock = IF @ = p THEN NoLock ELSE @,
                            !.jobs[p].pc = "done"]
    /\ last' = [call |-> "commit", run |-> p]
    /\ UNCHANGED <<tour, entrants, stages, avail>>

NextRuns == \E p \in 1..MaxRuns : RunAcquire(p) \/ RunRead(p) \/ RunCommit(p)

SpecRuns == InitRuns /\ [][NextRuns]_vars

-----------------------------------------------------------------------------
(* Properties of build_structure, read off the state after a call *)

\* the entrants a build works on: ACTIVE and, in a team tournament, complete
KeptEntrants(db) ==
    {e \in ActiveIds(db.entrants) :
        db.tour.team_size <= 1 \/ db.entrants[e].member_count = db.tour.team_size}

BuildReturned == last.call = "build" /\ last.ok
BuildRaised == last.call = "build" /\ ~last.ok

\* the smallest power of two that is at least n
BracketSize(n) == CHOOSE p \in {1, 2, 4, 8, 16, 32} : p >= n /\ (p = 1 \/ p \div 2 < n)

MatchIds == DOMAIN matches
Present(m) == {m.entrant1, m.entrant2} \ {NoEntrant}

ScheduleReturned == last.call = "schedule" /\ last.ok
ScheduleRaised == last.call = "schedule" /\ ~last.ok

\* the matches the last scheduler run gave a slot
AssignedIds == {x.id : x \in Range(last.out.assigned)}

Captains(m) == {entrants[e].captain : e \in Present(m)}

\* seconds a match of best_of games takes, and the seconds of the break after it
PlaySeconds(m) == ((60 * m.best_of + 14) \div 15) * 900
GapSeconds == ((tour.game_gaps + 14) \div 15) * 900

\* user u is available for the whole of [t, t + len): one weekly window of u,
\* laid on the week of the tournament, holds it
AvailableFor(u, t, len) ==
    \E k \in DOMAIN avail[u] :
        /\ avail[u][k].start_offset <= t
        /\ t + len <= avail[u][k].end_offset

\* C1: after a scheduler run that returns, every match it assigned lies, for its
\* whole duration, within an availability window of the captain of entrant1 and
\* within one of the captain of entrant2.
C1_AssignedWithinAvailability ==
    ScheduleReturned =>
        \A k \in AssignedIds :
            \A u \in Captains(matches[k]) :
                AvailableFor(u, matches[k].scheduled_at, PlaySeconds(matches[k]))

\* C2: after a scheduler run that returns, for every match m it assigned, no
\* other match with a scheduled_at (given in this run or before it) that shares a
\* captain with m is played during m's play-and-break interval.
C2_NoOverlapPerCaptain ==
    ScheduleReturned =>
        \A k \in AssignedIds, j \in MatchIds :
            (/\ j # k
             /\ matches[j].scheduled_at # NullTime
             /\ Captains(matches[j]) \cap Captains(matches[k]) # {}) =>
                \/ matches[k].scheduled_at + PlaySeconds(matches[k]) + GapSeconds
                       <= matches[j].scheduled_at
                \/ matches[j].scheduled_at + PlaySeconds(matches[j])
                       <= matches[k].scheduled_at

\* C3: after a scheduler run that returns, every match it assigned starts at or
\* after starts_at and ends at or before ends_at.
C3_AssignedWithinWindow ==
    ScheduleReturned =>
        \A k \in AssignedIds :
            /\ tour.starts_at <= matches[k].scheduled_at
            /\ matches[k].scheduled_at + PlaySeconds(matches[k]) <= tour.ends_at

\* C4: an attempt of the task that finds the structure already built runs the
\* scheduler in that same attempt (attempts in which build_structure is cut
\* short by an exception that is no ValidationError are set aside).
C4_RetryRunsScheduler ==
    (/\ last.call = "task"
     /\ last.before.stages # <<>>
     /\ last.out.build # "error") =>
        last.out.sched # "none"

\* C5: in the state right after build_structure returns, the tournament is
\* RUNNING and has exactly one stage, of order 0 and of the requested format.
C5_RunningWithOneStage ==
    BuildReturned =>
        /\ tour.status = RUNNING
        /\ Len(stages) = 1
        /\ stages[1].order = 0
        /\ stages[1].type = last.format

C5_Witness == BuildReturned /\ last.format = SINGLE_ELIM /\ last.before.tour.status = REGISTRATION

\* C6: a LEAGUE build over n >= 2 entrants creates n(n-1)/2 matches, one for
\* every unordered pair of distinct entrants and none of an entrant with itself,
\* in n-1 rounds (n even) or n rounds (n odd), no entrant twice in a round.
C6_LeagueIsRoundRobin ==
    (BuildReturned /\ last.format = LEAGUE) =>
        LET V == KeptEntrants(last.before)
            n == Cardinality(V)
            rounds == IF n % 2 = 0 THEN n - 1 ELSE n
        IN  /\ n >= 2
            /\ Len(matches) = (n * (n - 1)) \div 2
            /\ last.out.match_count = Len(matches)
            /\ \A k \in MatchIds :
                 /\ matches[k].entrant1 \in V
                 /\ matches[k].entrant2 \in V
                 /\ matches[k].entrant1 # matches[k].entrant2
            /\ \A a, b \in V :
                 a < b => Cardinality({k \in MatchIds : Present(matches[k]) = {a, b}}) = 1
            /\ {matches[k].round_number : k \in MatchIds} = 1..rounds
            /\ \A r \in 1..rounds, e \in V :
                 Cardinality({k \in MatchIds : /\ matches[k].round_number = r
                                               /\ e \in Present(matches[k])}) <= 1

C6_Witness ==
    /\ BuildReturned /\ last.format = LEAGUE
    /\ Cardinality(KeptEntrants(last.before)) = 5
    /\ Len(matches) = 10

\* C7: a SINGLE_ELIM build over n >= 2 entrants creates next_power_of_two(n) - 1
\* matches, size/2^r of them in round r; every round-1 match with exactly one
\* entrant is FINISHED, its winner_slot is the present entrant's slot, the score
\* is wins_needed(best_of) to 0, and the entrant stands in the round-2 match of
\* order (order div 2), as entrant1 when order is even and as entrant2 when odd.
C7_SingleElimBracket ==
    (BuildReturned /\ last.format = SINGLE_ELIM) =>
        LET n == Cardinality(KeptEntrants(last.before))
            size == BracketSize(n)
            InRound(r) == {k \in MatchIds : matches[k].round_number = r}
        IN  /\ Len(matches) = size - 1
            /\ last.out.match_count = size - 1
            /\ \A k \in MatchIds : Pow2(matches[k].round_number) <= size
            /\ \A r \in 1..5 :
                 Pow2(r) <= size => Cardinality(InRound(r)) = size \div Pow2(r)
            /\ \A k \in InRound(1) :
                 Cardinality(Present(matches[k])) = 1 =>
                    LET m == matches[k]
                        slot == IF m.entrant1 # NoEntrant THEN 1 ELSE 2
                        e == IF slot = 1 THEN m.entrant1 ELSE m.entrant2
                        won == (m.best_of + 1) \div 2
                    IN  /\ m.status = FINISHED
                        /\ m.winner_slot = slot
                        /\ <<m.score1, m.score2>> = IF slot = 1 THEN <<won, 0>> ELSE <<0, won>>
                        /\ 2 * won - 1 = m.best_of
                        /\ \E j \in InRound(2) :
                             /\ matches[j].order = m.order \div 2
                             /\ IF m.order % 2 = 0 THEN matches[j].entrant1 = e
                                ELSE matches[j].entrant2 = e

\* a bye of odd order was advanced
C7_Witness ==
    /\ BuildReturned /\ last.format = SINGLE_ELIM
    /\ \E k \in MatchIds :
         /\ matches[k].round_number = 1
         /\ matches[k].order % 2 = 1
         /\ Cardinality(Present(matches[k])) = 1
         /\ matches[k].status = FINISHED

\* C8: when build_structure fails, the persisted rows are what they were before
\* the call: no stage, no match, the status unchanged, no entrant deleted.
C8_FailedBuildChangesNothing ==
    BuildRaised =>
        /\ Db(tour, entrants, stages, matches) = last.before
        /\ DOMAIN entrants = DOMAIN last.before.entrants

\* the build failed for want of entrants after it had removed an incomplete team
C8_Witness ==
    /\ BuildRaised
    /\ last.detail = "At least 2 entrants are required to start a tournament."
    /\ \E e \in ActiveIds(last.before.entrants) :
         /\ last.before.tour.team_size > 1
         /\ last.before.entrants[e].member_count # last.before.tour.team_size
         /\ e \in DOMAIN entrants

\* C9: when schedule_tournament_matches fails with a ValidationError, every
\* match row is what it was before the call; when it returns, scheduled is the
\* number of intake matches, skipped is 0 and every intake match has a slot.
C9_SchedulingAllOrNothing ==
    /\ ScheduleRaised =>
          /\ matches = last.before.matches
          /\ last.detail \in
               {"Tournament scheduling window has no available slots.",
                "Entrants missing captain",
                "No users resolved for scheduling (missing captains?).",
                "Users missing availability",
                "Users have no availability within tournament window",
                "Could not schedule all matches within tournament time range."}
    /\ ScheduleReturned =>
          /\ last.out.scheduled = Len(last.out.intake)
          /\ last.out.skipped = 0
          /\ AssignedIds = Range(last.out.intake)
          /\ \A k \in AssignedIds :
               /\ last.before.matches[k].scheduled_at = NullTime
               /\ matches[k].scheduled_at # NullTime

\* the run failed at a later match after it had given a slot to an earlier one
C9_Witness ==
    /\ ScheduleRaised
    /\ last.detail = "Could not schedule all matches within tournament time range."
    /\ last.out.assigned # <<>>

\* C10: an attempt whose scheduler raised a ValidationError ends the task
\* without a retry, with the build's result and scheduling = {tournament_id,
\* scheduled 0, skipped 0}, the tournament RUNNING with its stage and matches
\* and no match scheduled; an attempt whose build_structure raised anything, or
\* whose scheduler raised anything else, is retried, at most 5 times.
C10_TaskSwallowsSchedulerValidation ==
    /\ task.retries <= 5
    /\ last.call = "task" =>
         LET before == last.task_before
         IN  /\ last.out.sched = "validation" =>
                  /\ task.pc = "done"
                  /\ task.retries = before.retries
                  /\ task.result.tournament_id = tour.id
                  /\ task.result.stage_id = 1
                  /\ task.result.matches_created = Len(matches)
                  /\ task.result.scheduling =
                        [tournament_id |-> tour.id, scheduled |-> 0, skipped |-> 0]
                  /\ tour.status = RUNNING
                  /\ Len(stages) = 1
                  /\ matches # <<>>
                  /\ \A k \in MatchIds : matches[k].scheduled_at = NullTime
             /\ (last.out.build # "returned" \/ last.out.sched = "error") =>
                  /\ task.pc = IF before.retries < 5 THEN "retry" ELSE "failed"
                  /\ task.retries = IF before.retries < 5 THEN before.retries + 1 ELSE 5
                  /\ task.result = before.result

\* a retried attempt built the structure and its scheduler raised a
\* ValidationError
C10_Witness ==
    /\ last.call = "task"
    /\ last.out.sched = "validation"
    /\ last.task_before.retries > 0
    /\ task.pc = "done"
    /\ matches # <<>>

-----------------------------------------------------------------------------
(* Concurrent builds *)

DoneJobs == {p \in DOMAIN task.jobs : task.jobs[p].pc = "done"}
WonJobs == {p \in DoneJobs : task.jobs[p].out.ok}
LostJobs == DoneJobs \ WonJobs

-----------------------------------------------------------------------------
(* Determinism of the build *)

MatchTuples(ms) ==
    {<<ms[k].round_number, ms[k].order, ms[k].entrant1, ms[k].entrant2>> : k \in DOMAIN ms}

\* C12: a build that returned produced the (round_number, order, entrant1,
\* entrant2) tuples that every build of the same format from the same starting
\* state produces, in whatever order the entrant rows are loaded
C12_BuildIsFunctionOfEntrantSet ==
    BuildReturned =>
        \A loaded \in LoadOrders(last.before) :
            MatchTuples(build_structure(last.before, last.format, loaded).db.matches)
                = MatchTuples(matches)

\* C13: no step of the core changes the status of a tournament that is RUNNING
\* or FINISHED, or adds a stage or a match to a tournament that is RUNNING,
\* FINISHED or has a stage; the only status change of the core is from
\* REGISTRATION to RUNNING, made together with the first stage, and stages are
\* never removed, so the change happens at most once
C13_StatusFlipsOnce ==
    [][/\ Len(stages') >= Len(stages)
       /\ last'.call # "admin" =>
            /\ (tour.status \in {RUNNING, FINISHED} \/ stages # <<>>) =>
                  /\ tour'.status = tour.status
                  /\ stages' = stages
                  /\ matches' = matches
            /\ tour'.status # tour.status =>
                  /\ tour.status = REGISTRATION
                  /\ tour'.status = RUNNING
                  /\ stages = <<>>
                  /\ Len(stages') = 1]_vars

C13_Witness ==
    /\ tour.status = RUNNING
    /\ Len(stages) = 1
    /\ WonJobs # {}
    /\ \E q \in LostJobs : task.jobs[q].retries > 0
    /\ last.call = "build" /\ ~last.ok

-----------------------------------------------------------------------------
(* Worked examples of the builders *)

\* the entrants of a loaded list that the build keeps, in the loaded order
KeptOf(db, loaded) == SelectSeq(loaded, LAMBDA e : e \in KeptEntrants(db))

Pairs(ms) == [k \in DOMAIN ms |-> <<ms[k].round_number, ms[k].entrant1, ms[k].entrant2>>]

\* C14: a LEAGUE build over the entrant list [A, B, C, D] creates, in order,
\* round 1: (A,B), (C,D); round 2: (C,A), (D,B); round 3: (A,D), (B,C)
C14_LeagueOfFour ==
    BuildReturned /\ last.format = LEAGUE =>
        \A loaded \in LoadOrders(last.before) :
            LET es == KeptOf(last.before, loaded)
            IN  Len(es) = 4 =>
                  Pairs(build_structure(last.before, LEAGUE, loaded).db.matches)
                    = << <<1, es[1], es[2]>>, <<1, es[3], es[4]>>,
                         <<2, es[3], es[1]>>, <<2, es[4], es[2]>>,
                         <<3, es[1], es[4]>>, <<3, es[2], es[3]>> >>

RoundOne == {k \in MatchIds : matches[k].round_number = 1}
RealOnes == {k \in RoundOne : Cardinality(Present(matches[k])) = 2}
Byes == {k \in RoundOne : Cardinality(Present(matches[k])) = 1}

\* C15: a SINGLE_ELIM build with 5 entrants creates the 7 matches of a bracket
\* of size 8; round 1 has 3 matches with both entrants and 1 bye; the bye is
\* FINISHED with winner_slot set and score 1-0, and its winner stands in round 2
\* as entrant1 if the order of the bye is even, else as entrant2
C15_SingleElimOfFive ==
    BuildReturned /\ last.format = SINGLE_ELIM
                  /\ Cardinality(KeptEntrants(last.before)) = 5 =>
        /\ Len(matches) = 7
        /\ Cardinality(RoundOne) = 4
        /\ Cardinality(RealOnes) = 3
        /\ Cardinality(Byes) = 1
        /\ \A k \in Byes :
             /\ matches[k].status = FINISHED
             /\ matches[k].winner_slot \in {1, 2}
             /\ {matches[k].score1, matches[k].score2} = {1, 0}
             /\ \E j \in MatchIds :
                  /\ matches[j].round_number = 2
                  /\ matches[j].order = matches[k].order \div 2
                  /\ Present(matches[k]) =
                       {IF matches[k].order % 2 = 0 THEN matches[j].entrant1
                                                    ELSE matches[j].entrant2}

-----------------------------------------------------------------------------
(* Worked examples of the scheduler *)

COULD_NOT_SCHEDULE == "Could not schedule all matches within tournament time range."

\* the scheduler ran on k matches without a slot, all between the two captains,
\* each of whom is available on Monday from 18:00 to 22:00
SeriesRun(k) ==
    /\ last.call = "schedule"
    /\ Len(intake_ids(last.before.matches)) = k
    /\ Len(last.before.matches) = k
    /\ \A u \in DOMAIN avail : avail[u] = <<Row(At(18, 0), At(22, 0))>>

\* C16: with game_gaps 60, the window Monday 10:00 to Tuesday 22:00 and both
\* captains available on Monday 18:00-22:00, a run on three best-of-1 matches of
\* the two captains puts the first at 18:00 and the second at 20:00, and the
\* third at 21:00 or nowhere: a run that returns has placed it at 21:00, and
\* otherwise the run fails and places nothing
C16_ThirdMatchAtNineOrFailure ==
    (/\ SeriesRun(3)
     /\ tour.game_gaps = 60
     /\ tour.starts_at = At(10, 0)
     /\ tour.ends_at = SECONDS_PER_DAY + At(22, 0))
    => IF last.ok
       THEN [k \in 1..Len(last.out.assigned) |-> last.out.assigned[k].scheduled_at]
                = <<At(18, 0), At(20, 0), At(21, 0)>>
       ELSE /\ last.detail = COULD_NOT_SCHEDULE
            /\ Len(last.out.assigned) = 2
            /\ last.out.assigned[1].scheduled_at = At(18, 0)
            /\ last.out.assigned[2].scheduled_at = At(20, 0)
            /\ matches = last.before.matches

\* the seconds the reservations of the matches of the last run take together
ReservedSeconds ==
    SumSeq([k \in 1..Len(last.before.matches) |->
              (duration_minutes_of(last.before.matches[k].best_of) + tour.game_gaps)
                 * SECONDS_PER_MINUTE])

\* C17: a run on matches of two captains whose common availability, Monday
\* 18:00-22:00 inside the tournament window, is shorter than the reservations of
\* the matches together fails with 'Could not schedule all matches within
\* tournament time range', whether or not the window has free slots outside the
\* availability, places nothing and counts scheduled 0, skipped 0
C17_ShortAvailabilityFails ==
    (/\ \E k \in 1..MaxSeries : SeriesRun(k)
     /\ tour.starts_at <= At(18, 0)
     /\ tour.ends_at >= At(22, 0)
     /\ ReservedSeconds > At(22, 0) - At(18, 0))
    => /\ ~last.ok
       /\ last.detail = COULD_NOT_SCHEDULE
       /\ last.out.scheduled = 0
       /\ last.out.skipped = 0
       /\ matches = last.before.matches

-----------------------------------------------------------------------------
(* Seeding *)

\* C18: the list bracket_seed_positions returns for a size 2^k is a permutation
\* of 1..2^k, and for k >= 1 its consecutive pairs (positions[2j],
\* positions[2j+1]) hold a seed i and the seed 2^k + 1 - i
C18_SeedPositionsPairUp ==
    task.pc = "return" =>
        LET positions == task.out
            size == task.n
        IN  /\ positions = bracket_seed_positions(size)
            /\ Len(positions) = size
            /\ Range(positions) = 1..size
            /\ size >= 2 =>
                 \A j \in 0..(size \div 2 - 1) :
                    positions[2 * j + 1] + positions[2 * j + 2] = size + 1

C18_Witness ==
    /\ task.pc = "return"
    /\ task.n >= 8
    /\ task.out[1] = 1
    /\ task.out[2] = task.n

-----------------------------------------------------------------------------
(* Availability windows *)

\* C19: after any sequence of creations and updates through create_or_merge,
\* starting from no windows, no two stored windows of the user overlap in
\* [start_offset, end_offset) and every stored window spans at most 16 hours
C19_WindowsDisjointAndShort ==
    /\ \A x, y \in avail :
         x.id # y.id => x.end_offset <= y.start_offset \/ y.end_offset <= x.start_offset
    /\ \A x \in avail :
         /\ x.start_offset < x.end_offset
         /\ x.end_offset - x.start_offset <= 16 * SECONDS_PER_HOUR

CaptainsOf(members, entrant_id) == {m \in MembersOf(members, entrant_id) : m.is_captain}

LowestId(rows) == CHOOSE m \in rows : \A o \in rows : m.id <= o.id

\* C20: after any sequence of joins, create_entrant, answered join requests,
\* leave and remove_player, every entrant row has members and exactly one of
\* them is captain, and every membership belongs to an entrant row; and in every
\* step that takes a captain's membership away, the entrant is deleted when no
\* member remains and otherwise its captain is the remaining member with the
\* lowest id
C20_OneCaptainLowestIdPromoted ==
    /\ [](/\ \A e \in entrants : Cardinality(CaptainsOf(task.members, e.id)) = 1
          /\ \A m \in task.members : \E e \in entrants : e.id = m.entrant)
    /\ [][\A c \in task.members :
              (c.is_captain /\ ~\E m \in task'.members : m.id = c.id) =>
                  LET remaining == MembersOf(task.members, c.entrant) \ {c}
                  IN  IF remaining = {}
                      THEN ~\E e \in entrants' : e.id = c.entrant
                      ELSE /\ \E e \in entrants' : e.id = c.entrant
                           /\ CaptainsOf(task'.members, c.entrant) =
                                  {[LowestId(remaining) EXCEPT !.is_captain = TRUE]}
                           /\ MembersOf(task'.members, c.entrant) =
                                  (remaining \ {LowestId(remaining)})
                                      \cup {[LowestId(remaining) EXCEPT !.is_captain = TRUE]}]_vars

\* a captain of a team of three has left and the older of the two members who
\* stayed is now captain
C20_Witness ==
    /\ last.call = "leave"
    /\ last.was_captain
    /\ \E e \in entrants :
           /\ Cardinality(MembersOf(task.members, e.id)) = 2
           /\ \E c \in CaptainsOf(task.members, e.id) :
                  \E o \in MembersOf(task.members, e.id) : o.id > c.id /\ o.user < c.user

Joined == {p \in 1..MaxJoiners : task.jobs[p].pc = "done" /\ ~task.jobs[p].raised}

\* C21: under every interleaving of join_by_invite calls on one invite with
\* max_uses = k, at most k calls succeed, uses never exceeds max_uses, uses is
\* the number of calls that joined, each of them a different user who is now a
\* participant, and a call that fails leaves uses as it was
C21_InviteUsesCounted ==
    /\ task.invite.uses <= task.invite.max_uses
    /\ Cardinality(Joined) <= task.invite.max_uses
    /\ task.invite.uses = Cardinality(Joined)
    /\ task.participants = {task.jobs[p].user : p \in Joined}
    /\ \A p, q \in Joined : task.jobs[p].user = task.jobs[q].user => p = q
    /\ (last.call = "join_by_invite" /\ last.raised) => task.invite.uses = last.uses_before

\* two calls have joined, which used the invite up, and a third call, of a user
\* who has not joined, has failed on the limit
C21_Witness ==
    /\ task.invite.uses = task.invite.max_uses
    /\ Cardinality(Joined) = 2
    /\ \E p \in 1..MaxJoiners :
           /\ task.jobs[p].pc = "done"
           /\ task.jobs[p].raised
           /\ task.jobs[p].detail = "Invite usage limit reached."
           /\ task.jobs[p].user \notin task.participants

\* the entrants a build of the rows db deletes, as the claim names them
IncompleteActive(db) ==
    {e \in ActiveIds(db.entrants) :
        db.tour.team_size > 1 /\ db.entrants[e].member_count # db.tour.team_size}

MatchEntrants == UNION {Present(matches[k]) : k \in MatchIds}

\* C22: after a successful build_structure the entrants that are gone are exactly
\* the ACTIVE entrants of a team tournament whose member count was not
\* team_size, none of them is in a created match, and every other entrant is
\* the row it was; in a solo tournament no entrant is gone
C22_OnlyIncompleteTeamsDeleted ==
    BuildReturned =>
        /\ DOMAIN entrants = (DOMAIN last.before.entrants) \ IncompleteActive(last.before)
        /\ \A e \in DOMAIN entrants : entrants[e] = last.before.entrants[e]
        /\ MatchEntrants \cap IncompleteActive(last.before) = {}
        /\ last.before.tour.team_size = 1 => DOMAIN entrants = DOMAIN last.before.entrants

\* a build of a team tournament returned; it deleted an ACTIVE team that was
\* short of a member and kept a DROPPED one that was short as well
C22_Witness ==
    /\ BuildReturned
    /\ last.before.tour.team_size = 2
    /\ \E e \in IncompleteActive(last.before) : e \notin DOMAIN entrants
    /\ \E e \in DOMAIN entrants : entrants[e].status = DROPPED /\ entrants[e].member_count = 1

\* the smallest instant >= t on the grid of slot_minutes minutes
GridCeil(t) == CeilDiv(t, step_seconds) * step_seconds

NO_SLOTS == "Tournament scheduling window has no available slots."

\* C23: _build_slots returns the grid instants t0, t0 + 15 min, ... below
\* ends_at, where t0 is the smallest grid instant that is not before starts_at;
\* no slot is earlier than starts_at; and the scheduler fails with NO_SLOTS
\* exactly when the list is empty
C23_SlotsStartAtOrAfterStartsAt ==
    last.call = "schedule" =>
        LET starts_at == last.before.tour.starts_at
            ends_at == last.before.tour.ends_at
            slots == _build_slots(starts_at, ends_at)
            t0 == GridCeil(starts_at)
        IN  /\ slots = slots_from(t0, ends_at)
            /\ \A i \in DOMAIN slots : slots[i] >= starts_at
            /\ (~last.ok /\ last.detail = NO_SLOTS) <=> (slots = <<>>)
-----------------------------------------------------------------------------
\* the reservation lengths of the two match lengths
ReserveLengths == {duration_slots_of(b) + gap_slots_of(tour.game_gaps) : b \in BestOfChoices}

\* [start_i, start_i + reserve_slots) shares no slot with any reserved interval
\* of the user
disjoint_from_reserved(user_id, start_i, reserve_slots, user_to_reserved) ==
    \A k \in DOMAIN user_to_reserved[user_id] :
        \/ start_i + reserve_slots <= user_to_reserved[user_id][k][1]
        \/ user_to_reserved[user_id][k][2] <= start_i

\* C26: for every captain and every reservation list the seeding loop and the
\* main loop build with _reserve_interval, _fits_reserved_constraints(user, i, r)
\* is true exactly when [i, i + r) is disjoint from every reserved interval of
\* that user.
C26_FitsIffDisjointFromReserved ==
    \A u \in PickUsers, i \in 0..(Len(pick_slots) - 1), r \in ReserveLengths :
        _fits_reserved_constraints(u, i, r, task.reserved)
            <=> disjoint_from_reserved(u, i, r, task.reserved)
-----------------------------------------------------------------------------
\* the indices the claim speaks of, for a match of best_of games of the two
\* captains and the reservations made so far: in both available-start lists,
\* within the end bound, and overlapping no reservation of either captain
MutualFree(best_of, user_to_reserved) ==
    LET q == pick_query(best_of, user_to_reserved)
        ua == pick_available(q.duration_slots)
    IN  {i \in Range(ua[PickUser1]) \cap Range(ua[PickUser2]) :
            /\ SlotAt(q.slots, i) + q.duration_minutes * SECONDS_PER_MINUTE <= q.end_at
            /\ disjoint_from_reserved(PickUser1, i, q.duration_slots + q.gap_slots,
                                      user_to_reserved)
            /\ disjoint_from_reserved(PickUser2, i, q.duration_slots + q.gap_slots,
                                      user_to_reserved)}

\* C24: when some index lies in both captains' available-start lists, is within
\* the end bound and overlaps no reservation of either captain, the match gets
\* the smallest such index, and gets it from the walk over the common indices,
\* not from the fallback scan.
C24_EarliestMutualSlotChosen ==
    (last.call = "pick" /\ MutualFree(last.best_of, last.reserved) # {}) =>
        /\ last.phase = "common"
        /\ last.idx = MinOf(MutualFree(last.best_of, last.reserved))
-----------------------------------------------------------------------------
\* the indices of range(0, len(slots) - d + 1) that pass the end bound and both
\* reservation checks
Feasible(q) == {i \in 0..(Len(q.slots) - q.duration_slots) : slot_is_free(q, i)}

\* the slot starts at noon or later
AfterNoon(q, i) == SlotAt(q.slots, i) % SECONDS_PER_DAY >= PM_HOUR * SECONDS_PER_HOUR

scan_cost(i, a, b) == (_distance_to_list(i, a) + _distance_to_list(i, b)) * slot_minutes

\* the first index of S with the lowest cost
Cheapest(S, a, b) ==
    CHOOSE i \in S : \A j \in S : scan_cost(i, a, b) < scan_cost(j, a, b)
                                   \/ (scan_cost(i, a, b) = scan_cost(j, a, b) /\ i <= j)

\* what the fallback phase is to return for query q and the start lists a, b
fallback_expected(q, a, b) ==
    LET pm == {i \in Feasible(q) : AfterNoon(q, i)}
    IN  IF Feasible(q) = {} THEN NullSlot
        ELSE IF a # <<>> /\ b # <<>> /\ pm # {} THEN Cheapest(pm, a, b)
        ELSE Cheapest(Feasible(q), a, b)

\* C25: a pick that comes from the fallback phase is the lowest-cost feasible
\* slot at noon or later when both start lists are non-empty and such a slot
\* exists, and otherwise the lowest-cost feasible slot whatever its hour; no
\* index is returned only when no index passes the end bound and both
\* reservation checks.
C25_FallbackPrefersPmOnlyForTwoLists ==
    last.call = "pick" =>
        LET q == pick_query(last.best_of, last.reserved)
            ua == pick_available(q.duration_slots)
        IN  /\ last.phase = "fallback" =>
                last.idx = fallback_expected(q, ua[PickUser1], ua[PickUser2])
            /\ last.idx = NullSlot => Feasible(q) = {}

\* a fallback pick at noon or later although a feasible slot before noon costs
\* less
C25_Witness ==
    /\ last.call = "pick"
    /\ last.phase = "fallback"
    /\ last.idx # NullSlot
    /\ LET q == pick_query(last.best_of, last.reserved)
           ua == pick_available(q.duration_slots)
       IN  /\ AfterNoon(q, last.idx)
           /\ \E i \in Feasible(q) :
                /\ ~AfterNoon(q, i)
                /\ scan_cost(i, ua[PickUser1], ua[PickUser2])
                     < scan_cost(last.idx, ua[PickUser1], ua[PickUser2])
-----------------------------------------------------------------------------
\* the weeks a tournament of the model can touch
WeekIndexes == 0..2

\* the weekly windows of a user shifted to each week and clipped to
\* [starts_at, ends_at), the empty ones left out
ExpandedIntervals(user) ==
    {iv \in {<<Max(w * WEEK_SECONDS + avail[user][k].start_offset, tour.starts_at),
               Min(w * WEEK_SECONDS + avail[user][k].end_offset, tour.ends_at)>> :
                 w \in WeekIndexes, k \in DOMAIN avail[user]} :
        iv[1] < iv[2]}

\* C27: for every captain and match length, the expanded intervals are the
\* weekly windows shifted to each week and clipped to the tournament window;
\* index i is in the available-start list exactly when
\* [slots[i], slots[i] + d * 15 min) lies inside one expanded interval of the
\* captain, whether or not the bounds of the interval are on the grid; and the
\* list is strictly increasing.
C27_StartListIsSlotsInsideOneInterval ==
    last.call = "starts" =>
        \A u \in PickUsers :
            LET d == last.duration_slots
                starts == last.starts[u]
            IN  /\ Range(last.intervals[u]) = ExpandedIntervals(u)
                /\ \A i \in 0..(Len(pick_slots) - 1) :
                     (i \in Range(starts)) <=>
                        \E iv \in ExpandedIntervals(u) :
                            /\ iv[1] <= SlotAt(pick_slots, i)
                            /\ SlotAt(pick_slots, i) + d * step_seconds <= iv[2]
                /\ \A j, k \in DOMAIN starts : j < k => starts[j] < starts[k]

\* the lists of a tournament that runs into a second week, for a captain whose
\* window has bounds off the grid and a captain with two windows that touch
C27_Witness ==
    /\ last.call = "starts"
    /\ tour.ends_at > WEEK_SECONDS
    /\ avail[PickUser1] = <<Row(At(10, 5), At(11, 20))>>
    /\ Len(avail[PickUser2]) = 2
    /\ last.starts[PickUser1] # <<>>
    /\ Len(last.starts[PickUser2]) > 1
-----------------------------------------------------------------------------
\* the match was SCHEDULED, without scheduled_at and with both entrants
WaitingForSlot(m) ==
    /\ m.status = SCHEDULED
    /\ m.scheduled_at = NullTime
    /\ m.entrant1 # NoEntrant
    /\ m.entrant2 # NoEntrant

\* C28: a scheduler run changes nothing but the scheduled_at of matches that at
\* intake were SCHEDULED, had no scheduled_at and had both entrants: the
\* tournament, the entrants and the stages are as before, no match is added or
\* removed, every match keeps every field other than scheduled_at, and a match
\* that was a FINISHED bye, lacked an entrant or already had a scheduled_at
\* keeps that too.
C28_SchedulerWritesOnlyScheduledAt ==
    last.call = "schedule" =>
        LET before == last.before
            after == schedule_tournament_matches(before, avail).db
        IN  /\ after.tour = before.tour
            /\ after.entrants = before.entrants
            /\ after.stages = before.stages
            /\ after.matches = matches
            /\ tour = before.tour /\ entrants = before.entrants /\ stages = before.stages
            /\ DOMAIN matches = DOMAIN before.matches
            /\ \A k \in DOMAIN matches :
                 /\ [matches[k] EXCEPT !.scheduled_at = before.matches[k].scheduled_at]
                        = before.matches[k]
                 /\ ~WaitingForSlot(before.matches[k]) => matches[k] = before.matches[k]

\* a run that gave a match its slot in a bracket with a FINISHED bye, a match
\* that lacks an entrant, and a match that had a scheduled_at before the run
C28_Witness ==
    /\ last.call = "schedule"
    /\ last.ok
    /\ \E k \in DOMAIN matches : matches[k] # last.before.matches[k]
    /\ \E k \in DOMAIN matches : last.before.matches[k].status = FINISHED
    /\ \E k \in DOMAIN matches : last.before.matches[k].entrant2 = NoEntrant
    /\ \E k \in DOMAIN matches : last.before.matches[k].scheduled_at # NullTime
-----------------------------------------------------------------------------
\* the matches a run gave a slot
RunAssignedIds(p) == {task.jobs[p].assigned[k].id : k \in DOMAIN task.jobs[p].assigned}

\* C29: a scheduler run that follows a successful run of the same tournament,
\* also one that was started while the other was running, returns scheduled 0
\* and skipped 0 and changes no scheduled_at; no match is given a slot by two
\* runs.
C29_SecondRunSchedulesNothing ==
    /\ [](\A p, q \in 1..MaxRuns : p # q => RunAssignedIds(p) \cap RunAssignedIds(q) = {})
    /\ [][\A q \in 1..MaxRuns :
            (/\ task.jobs[q].pc = "computed"
             /\ task'.jobs[q].pc = "done"
             /\ \E p \in 1..MaxRuns : p # q /\ task.jobs[p].pc = "done" /\ task.jobs[p].ok)
            => /\ task.jobs[q].ok
               /\ task.jobs[q].scheduled = 0
               /\ task.jobs[q].skipped = 0
               /\ matches' = matches]_vars

\* two runs are done: one gave matches their slots, the other, which had to
\* wait for the tournament row, returned scheduled 0
C29_Witness ==
    /\ \E p, q \in 1..MaxRuns :
         /\ p # q
         /\ task.jobs[p].pc = "done" /\ task.jobs[p].ok /\ task.jobs[p].scheduled > 0
         /\ task.jobs[q].pc = "done" /\ task.jobs[q].ok /\ task.jobs[q].scheduled = 0
    /\ \E k \in DOMAIN matches : matches[k].scheduled_at # NullTime
-----------------------------------------------------------------------------
RoundTwo == {k \in MatchIds : matches[k].round_number = 2}

\* the byes whose entrant goes to the given side of round-2 match j
ByesInto(j, side) ==
    {k \in Byes : /\ matches[k].order \div 2 = matches[j].order
                  /\ matches[k].order % 2 = side - 1}

\* C30: in a SINGLE_ELIM build of n >= 2 entrants every round-1 match has
\* entrant1, exactly next_power_of_two(n) - n round-1 matches are byes, every
\* bye has winner_slot 1, and each side of a round-2 match receives the entrant
\* of at most one bye and is empty when it receives none.
C30_ByesHaveEntrantOne ==
    (BuildReturned /\ last.format = SINGLE_ELIM) =>
        LET n == Cardinality(KeptEntrants(last.before))
        IN  /\ n >= 2
            /\ \A k \in RoundOne : matches[k].entrant1 # NoEntrant
            /\ Cardinality(Byes) = BracketSize(n) - n
            /\ \A k \in Byes : matches[k].winner_slot = 1 /\ matches[k].entrant2 = NoEntrant
            /\ \A j \in RoundTwo :
                 /\ Cardinality(ByesInto(j, 1)) <= 1
                 /\ Cardinality(ByesInto(j, 2)) <= 1
                 /\ matches[j].entrant1 # NoEntrant <=> ByesInto(j, 1) # {}
                 /\ matches[j].entrant2 # NoEntrant <=> ByesInto(j, 2) # {}

\* a bracket of five: three byes, two of them into the two sides of one
\* round-2 match
C30_Witness ==
    /\ BuildReturned /\ last.format = SINGLE_ELIM
    /\ Cardinality(KeptEntrants(last.before)) = 5
    /\ Cardinality(Byes) = 3
    /\ \E j \in RoundTwo : ByesInto(j, 1) # {} /\ ByesInto(j, 2) # {}


====
